---- MODULE Spec2Model ----
(***************************************************************************)
(* EchoMux: the media processing job engine (echomux/worker.py).           *)
(*                                                                         *)
(* One FFmpegWorker runs one ProcessingJob on its own thread.  The UI      *)
(* thread can call cancel() at any time.  The transcoder is an external    *)
(* process: it writes diagnostic lines, and exits with a return code.      *)
(* Time stamps and durations are whole seconds.                            *)
(*                                                                         *)
(* Two more parts of the program are modelled beside the worker: the bulk  *)
(* renaming tab that builds a job from its file list (TabSpec), and the    *)
(* matching of companion files to a video by their stems (MatchSpec).      *)
(* The functions of worker.py and utils.py that compute a value from their *)
(* arguments alone are modelled as operators; each has a specification in  *)
(* which one call is made with arguments drawn from a bounded set.         *)
(***************************************************************************)
EXTENDS Integers, Sequences, FiniteSets, TLC

\* ---- bounds ----
MaxFiles == 2       \* largest input list
MaxLines == 2       \* most diagnostic lines read from one process
MaxDuration == 2    \* largest probed duration
MaxElapsed == 3     \* largest time stamp a process reports
MaxTargets == 2     \* distinct new names a rename job can compute
MaxMedia == 2       \* MediaFile objects a tab creates
MaxStem == 2        \* longest file stem, in characters
MaxAudio == 2       \* most companion paths offered to one video
MaxName == 6        \* longest file name given to extract_season_episode
MaxTemplate == 2    \* most parts of a filename template
MaxPaths == 2       \* most paths given to process_paths
MaxBatch == 2       \* largest batch of the progress computation
MaxSeconds == 6     \* longest duration and elapsed time of the progress computation

JobTypes == {"extract", "merge", "embed", "rename"}
NoFile == -1        \* a completion message that names no file
NoTime == -1        \* a diagnostic line without a time= marker

VARIABLES
  job_type,         \* ProcessingJob.job_type
  total_files,      \* len(job.input_files)
  has_companion,    \* per input file: some companion path matches its stem
  preview_mode,     \* settings['preview_mode']
  pc,               \* position of the worker thread
  i,                \* loop index of the per-kind loop
  is_cancelled,     \* FFmpegWorker.is_cancelled
  duration,         \* result of _get_duration for the current file
  proc,             \* the current subprocess: none, running, exited
  returncode,       \* process.returncode
  terminated,       \* process.terminate() was called on the current process
  lines_read,       \* diagnostic lines read from the current process
  last_time,        \* last time stamp the current process reported
  renamed_count,    \* bulk_rename's counter
  progress_updated, \* the last two values emitted on progress_updated
  status_updated,   \* set of <<kind, file index>> emitted on status_updated
  job_completed,    \* sequence of [success, file] emitted on job_completed
  begun,            \* input files that passed the cancel check of the loop
  launched,         \* input files for which Popen was called
  renamed,          \* input files for which Path.rename was called
  tool_error,       \* a process exited non-zero, or Popen/readline raised
  cancel_i,         \* loop index when cancel() was first called (NoFile: never)
  target,           \* rename: per input file, the new name computed for it
  existing,         \* rename: new names that exist on disk before the job
  disk,             \* rename: per path, the file stored there (NoFile: none)
  alive,            \* input files whose process was started and has not exited
  waited,           \* input files whose process.wait() has returned
  last_notified,    \* input file of the latest status or progress notification
  progress_for,     \* input files for which a progress value was emitted
  \* -- BulkRenamingTab --
  media_files,      \* content of the list self.media_files refers to
  input_files,      \* content of the list job.input_files refers to
  same_list,        \* self.media_files and job.input_files are one list object
  filename,         \* MediaFile.filename of every MediaFile object
  next_media,       \* number of MediaFile objects created so far
  preview_data,     \* self.preview_data: [original, valid] per previewed file
  show_name,        \* text of the show name field, stripped
  use_api,          \* the "fetch episode titles" check box
  template_title,   \* the filename template contains {title}
  preview_checked,  \* the "preview mode" check box
  show_found,       \* the API is configured and search_show finds the show
  rename_btn,       \* the start button is enabled
  worker_state,     \* the tab's worker thread: idle, running, signalled
  worker_idx,       \* loop index of the tab's worker over job.input_files
  worker_cancel,    \* is_cancelled of the tab's worker
  \* -- companion matching --
  video_stem,       \* video_file.path.stem
  audio_files,      \* stems of the companion paths, in list order
  matching_audio,   \* positions in audio_files of the matched companions
  \* -- one call of a function --
  args,             \* the arguments of the call
  called,           \* the call has returned
  result            \* what the call returned

workerVars == <<job_type, total_files, has_companion, preview_mode, pc, i,
                is_cancelled, duration, proc, returncode, terminated,
                lines_read, last_time, renamed_count, progress_updated,
                status_updated, job_completed, begun, launched, renamed,
                tool_error, cancel_i, target, existing, disk, alive, waited,
                last_notified, progress_for>>
tabVars == <<media_files, input_files, same_list, filename, next_media,
             preview_data, show_name, use_api, template_title,
             preview_checked, show_found, rename_btn, worker_state,
             worker_idx, worker_cancel>>
matchVars == <<video_stem, audio_files, matching_audio>>
callVars == <<args, called, result>>
uiVars == <<tabVars, matchVars, callVars>>
vars == <<workerVars, tabVars, matchVars, callVars>>

jobVars == <<job_type, total_files, has_companion, preview_mode, target,
             existing>>
procVars == <<proc, returncode, terminated, lines_read, last_time>>

Files == 0 .. (total_files - 1)

\* ---- the directory of a rename job ----
\* <<"src", k>> is the path of input file k; <<"new", t>> is the path
\* media_file.path.parent / new_name for the new name t.
OtherFile == MaxFiles   \* content of a file that is not an input of the job
Paths == ({"src"} \X (0 .. (MaxFiles - 1))) \cup ({"new"} \X (1 .. MaxTargets))
SrcPath(k) == <<"src", k>>
NewPath(k) == <<"new", target[k]>>

InitialDisk ==
  [p \in Paths |->
     IF p[1] = "src"
       THEN (IF p[2] \in Files /\ job_type = "rename" THEN p[2] ELSE NoFile)
       ELSE (IF p[2] \in existing THEN OtherFile ELSE NoFile)]

\* Path.rename(new_path) when it does not raise: the file moves, and a file
\* already at new_path is replaced (os.rename on POSIX).
Rename(d, from, to) ==
  IF from = to THEN d ELSE [d EXCEPT ![to] = d[from], ![from] = NoFile]

\* ---- pure helpers ----

\* int((elapsed_time / duration) * 100)
FileProgress(elapsed, d) == (elapsed * 100) \div d

\* The arguments (i, progress, total_files) for which the binary64
\* arithmetic of ((i + progress / 100) / total_files) * 100 ends just below
\* the whole number the exact quotient is, so that int() yields one less:
\* all of them among total_files <= 3 and the percentages of whole seconds
\* up to 7 of durations up to 7.
RoundsBelow ==
  {<<0, 57, 1>>, <<0, 116, 1>>, <<0, 116, 2>>, <<1, 16, 2>>, <<0, 42, 3>>,
   <<0, 57, 3>>, <<1, 71, 3>>}

\* int(((i + progress / 100) / total_files) * 100)
OverallProgress(idx, progress, n) ==
  ((100 * idx + progress) \div n)
    - (IF <<idx, progress, n>> \in RoundsBelow THEN 1 ELSE 0)

\* int((i + 1) / total_files * 100)
RenameProgress(idx, n) == ((idx + 1) * 100) \div n

\* merge_audio and embed_subtitles call self._build_merge_audio_cmd and
\* self._build_embed_subtitles_cmd, which the class does not define.
BuildCmdRaises(kind) == kind \in {"merge", "embed"}

Summary(ok, f, s) == [success |-> ok, file |-> f, summary |-> s]
Completion(ok, f) == Summary(ok, f, "plain")

\* A rename that ignores settings['preview_mode'].
ShouldRenameAlways(parsed) == parsed

\* bulk_rename calls Path.rename only `if not settings.get('preview_mode')`
ShouldRename(parsed) == parsed /\ ~preview_mode

\* "Bulk renaming completed! " + ("Preview completed" | "Renamed N files")
RenameSummary ==
  Summary(TRUE, NoFile, IF preview_mode THEN "preview" ELSE "renamed")

\* progress_updated.emit(v): the signal is a stream, of which the model
\* keeps the previous and the latest value.
Emit(seq, v) == IF seq = <<>> THEN <<v>> ELSE <<seq[Len(seq)], v>>


\* ---- BulkRenamingTab (tabs/bulk_renaming_tab.py) ----

MediaIds == 0 .. (MaxMedia - 1)
Filenames == {"S01E02.mkv", "clip.mkv"}

\* extract_season_episode finds a season and an episode in the file name
Parses(name) == name = "S01E02.mkv"

\* The words of a new name that update_preview looks for.
NotFound == "Episode Not Found"
CouldNotParse == "Could not parse S/E"

\* build_new_filename: the template filled in; the title is part of the
\* name only where the template has {title}.  A name is the sequence of its
\* parts.
build_new_filename(has_title, episode_title) ==
  IF has_title /\ episode_title # ""
    THEN <<"Show - S01E02 - ", episode_title, ".mkv">>
    ELSE <<"Show - S01E02", ".mkv">>

\* update_preview: the new name of one file.  show: search_show found the
\* show; title_found: api_client.get_episode_title returned a title.
NewName(name, show_text, show, has_title, title_found) ==
  IF show_text = "" THEN <<>>
  ELSE IF ~Parses(name) THEN <<CouldNotParse>>
  ELSE build_new_filename(has_title,
         IF show THEN (IF title_found THEN "Title" ELSE NotFound) ELSE "")

\* A part of the name holds the text.
HasPart(new_name, text) == \E k \in DOMAIN new_name : new_name[k] = text

\* 'valid' of a preview entry
Valid(new_name) ==
  /\ new_name # <<>>
  /\ ~HasPart(new_name, CouldNotParse)
  /\ ~HasPart(new_name, NotFound)

\* update_preview: the value it leaves in preview_data, for the list, the
\* file names and the settings it reads.  It returns early, leaving
\* preview_data as it was, when the list is empty.  titles: per MediaFile,
\* whether the title lookup made by this call finds a title.
update_preview(files, names, show_text, api, has_title, titles) ==
  IF files = <<>> THEN preview_data
  ELSE [k \in 1 .. Len(files) |->
          [original |-> files[k],
           valid |-> Valid(NewName(names[files[k]], show_text,
                                   show_text # "" /\ api /\ show_found,
                                   has_title, titles[files[k]]))]]

\* start_renaming's valid_count
ValidCount ==
  Cardinality({k \in DOMAIN preview_data : preview_data[k].valid})

\* start_renaming gets past its three early returns
CanStart ==
  /\ media_files # <<>>
  /\ show_name # ""
  /\ ValidCount > 0

\* list.pop(row), rows counted from 1
Pop(list, row) ==
  [k \in 1 .. (Len(list) - 1) |-> IF k < row THEN list[k] ELSE list[k + 1]]

TabIdle ==
  /\ media_files = <<>>
  /\ input_files = <<>>
  /\ same_list = FALSE
  /\ filename = [m \in MediaIds |-> "clip.mkv"]
  /\ next_media = 0
  /\ preview_data = <<>>
  /\ show_name = ""
  /\ use_api = FALSE
  /\ template_title = TRUE
  /\ preview_checked = TRUE
  /\ show_found = FALSE
  /\ rename_btn = TRUE
  /\ worker_state = "idle"
  /\ worker_idx = 0
  /\ worker_cancel = FALSE

\* ---- companion matching (worker.py merge_audio, embed_subtitles) ----

Letters == {"a", "A", "b"}
Stems == UNION {[1 .. n -> Letters] : n \in 1 .. MaxStem}

\* str.lower
Lower(stem) == [k \in DOMAIN stem |-> IF stem[k] = "A" THEN "a" ELSE stem[k]]

\* Python's `s in t` for strings
In(s, t) ==
  \E off \in 0 .. (Len(t) - Len(s)) :
    \A k \in 1 .. Len(s) : t[off + k] = s[k]

\* A predicate that only looks for the video's stem in the companion's stem.
MatchesOneWay(video, companion) == In(Lower(video), Lower(companion))

\* The condition of the list comprehension of merge_audio
Matches(video, companion) ==
  \/ In(Lower(video), Lower(companion))
  \/ In(Lower(companion), Lower(video))

\* The list comprehension over the first n companion paths.
RECURSIVE MatchingUpTo(_, _, _)
MatchingUpTo(video, files, n) ==
  IF n = 0 THEN <<>>
  ELSE LET r == MatchingUpTo(video, files, n - 1)
       IN  IF Matches(video, files[n]) THEN Append(r, n) ELSE r

\* A matching that keeps one companion of each stem only.
MatchingAudioDedup(video, files) ==
  LET r == MatchingUpTo(video, files, Len(files))
      keep == {j \in DOMAIN r : \A h \in 1 .. (j - 1) : files[r[h]] # files[r[j]]}
  IN  [j \in 1 .. Cardinality(keep) |->
         r[CHOOSE x \in keep : Cardinality({y \in keep : y <= x}) = j]]

\* matching_audio = [audio_path for audio_path in audio_files if ...]
MatchingAudio(video, files) == MatchingUpTo(video, files, Len(files))

MatchIdle ==
  /\ video_stem = <<"a">>
  /\ audio_files = <<>>
  /\ matching_audio = <<>>

\* No call of a function is looked at.
CallIdle ==
  /\ args = <<>>
  /\ called = FALSE
  /\ result = <<>>

\* ---- initial state: a worker constructed for a job, not yet started ----
Init ==
  /\ job_type \in JobTypes
  /\ total_files \in 1 .. MaxFiles
  /\ has_companion \in [0 .. (total_files - 1) -> BOOLEAN]
  /\ (job_type \notin {"merge", "embed"} =>
        \A k \in 0 .. (total_files - 1) : ~has_companion[k])
  /\ preview_mode \in BOOLEAN
  /\ (job_type # "rename" => ~preview_mode)
  /\ pc = "start"
  /\ i = 0
  /\ is_cancelled = FALSE
  /\ duration = 0
  /\ proc = "none"
  /\ returncode = 0
  /\ terminated = FALSE
  /\ lines_read = 0
  /\ last_time = 0
  /\ renamed_count = 0
  /\ progress_updated = <<>>
  /\ status_updated = {}
  /\ job_completed = <<>>
  /\ begun = {}
  /\ launched = {}
  /\ renamed = {}
  /\ tool_error = FALSE
  /\ cancel_i = NoFile
  /\ target \in [0 .. (total_files - 1) -> 1 .. MaxTargets]
  /\ existing \in SUBSET (1 .. MaxTargets)
  /\ (job_type # "rename" =>
        /\ existing = {}
        /\ \A k \in 0 .. (total_files - 1) : target[k] = 1)
  /\ disk = InitialDisk
  /\ alive = {}
  /\ waited = {}
  /\ last_notified = NoFile
  /\ progress_for = {}
  /\ TabIdle
  /\ MatchIdle
  /\ CallIdle

\* ---- UI thread ----

\* FFmpegWorker.cancel
cancel ==
  /\ ~is_cancelled          \* a repeated call changes nothing
  /\ is_cancelled' = TRUE
  /\ cancel_i' = i
  /\ UNCHANGED <<uiVars, jobVars, pc, i, duration, procVars, renamed_count,
                 progress_updated, status_updated, job_completed, begun,
                 launched, renamed, tool_error,
                 disk, alive, waited, last_notified, progress_for>>

\* ---- worker thread ----

\* FFmpegWorker.run: dispatch on the job kind
run ==
  /\ pc = "start"
  /\ pc' = "loop"
  /\ UNCHANGED <<uiVars, jobVars, i, is_cancelled, duration, procVars, renamed_count,
                 progress_updated, status_updated, job_completed, begun,
                 launched, renamed, tool_error, cancel_i,
                 disk, alive, waited, last_notified, progress_for>>

\* LoopCheck without the `if self.is_cancelled: break` of the loop.
LoopCheckNoCancel ==
  /\ pc = "loop"
  /\ IF i >= total_files
       THEN pc' = "final" /\ begun' = begun
       ELSE pc' = "file" /\ begun' = begun \cup {i}
  /\ UNCHANGED <<uiVars, jobVars, i, is_cancelled, duration, procVars, renamed_count,
                 progress_updated, status_updated, job_completed, launched,
                 renamed, tool_error, cancel_i,
                 disk, alive, waited, last_notified, progress_for>>

\* `for i, media_file in enumerate(...)` and `if self.is_cancelled: break`
LoopCheck ==
  /\ pc = "loop"
  /\ IF i >= total_files \/ is_cancelled
       THEN pc' = "final" /\ begun' = begun
       ELSE pc' = "file" /\ begun' = begun \cup {i}
  /\ UNCHANGED <<uiVars, jobVars, i, is_cancelled, duration, procVars, renamed_count,
                 progress_updated, status_updated, job_completed, launched,
                 renamed, tool_error, cancel_i,
                 disk, alive, waited, last_notified, progress_for>>

\* Top of one iteration of extract_audio: status, duration probe, command.
ExtractBegin ==
  /\ pc = "file"
  /\ job_type = "extract"
  /\ \E d \in 0 .. MaxDuration :
       /\ duration' = d
       /\ status_updated' = status_updated \cup {<<"begin", i>>}
            \cup (IF d = 0 THEN {<<"noduration", i>>} ELSE {})
  /\ pc' = "launch"
  /\ last_notified' = i
  /\ UNCHANGED <<uiVars, jobVars, i, is_cancelled, procVars, renamed_count,
                 progress_updated, job_completed, begun, launched, renamed,
                 tool_error, cancel_i,
                 disk, alive, waited, progress_for>>

\* MatchBegin in which a video without a companion fails the job instead
\* of being skipped.
MatchBeginSkipFails ==
  /\ pc = "file"
  /\ job_type \in {"merge", "embed"}
  /\ IF ~has_companion[i]
       THEN /\ status_updated' = status_updated \cup
                                   {<<"begin", i>>, <<"nomatch", i>>}
            /\ i' = i
            /\ pc' = "done"
            /\ job_completed' = Append(job_completed, Completion(FALSE, i))
            /\ UNCHANGED duration
       ELSE \E d \in 0 .. MaxDuration :
            /\ duration' = d
            /\ status_updated' = status_updated \cup {<<"begin", i>>}
                 \cup (IF d = 0 THEN {<<"noduration", i>>} ELSE {})
            /\ i' = i
            /\ IF BuildCmdRaises(job_type)
                 THEN /\ job_completed' =
                           Append(job_completed, Completion(FALSE, NoFile))
                      /\ pc' = "done"
                 ELSE /\ job_completed' = job_completed
                      /\ pc' = "launch"
  /\ last_notified' = i
  /\ UNCHANGED <<uiVars, jobVars, is_cancelled, procVars, renamed_count,
                 progress_updated, begun, launched, renamed, tool_error,
                 cancel_i,
                 disk, alive, waited, progress_for>>

\* Top of one iteration of merge_audio / embed_subtitles: status, companion
\* matching, then either the skip, or the probe and the command builder.
\* The builder call raises (BuildCmdRaises), outside the try block, so the
\* exception reaches run(), which emits the completion "Error: ...".
MatchBegin ==
  /\ pc = "file"
  /\ job_type \in {"merge", "embed"}
  /\ IF ~has_companion[i]
       THEN /\ status_updated' = status_updated \cup
                                   {<<"begin", i>>, <<"nomatch", i>>}
            /\ i' = i + 1
            /\ pc' = "loop"
            /\ UNCHANGED <<duration, job_completed>>
       ELSE \E d \in 0 .. MaxDuration :
            /\ duration' = d
            /\ status_updated' = status_updated \cup {<<"begin", i>>}
                 \cup (IF d = 0 THEN {<<"noduration", i>>} ELSE {})
            /\ i' = i
            /\ IF BuildCmdRaises(job_type)
                 THEN /\ job_completed' =
                           Append(job_completed, Completion(FALSE, NoFile))
                      /\ pc' = "done"
                 ELSE /\ job_completed' = job_completed
                      /\ pc' = "launch"
  /\ last_notified' = i
  /\ UNCHANGED <<uiVars, jobVars, is_cancelled, procVars, renamed_count,
                 progress_updated, begun, launched, renamed, tool_error,
                 cancel_i,
                 disk, alive, waited, progress_for>>

\* Launch whose except clause emits the failure but does not return: the
\* loop goes on with the next file.
LaunchFailContinues ==
  /\ pc = "launch"
  /\ launched' = launched \cup {i}
  /\ \/ /\ proc' = "running"
        /\ returncode' = 0
        /\ terminated' = FALSE
        /\ lines_read' = 0
        /\ last_time' = 0
        /\ pc' = "read"
        /\ i' = i
        /\ alive' = alive \cup {i}
        /\ UNCHANGED <<job_completed, tool_error>>
     \/ /\ job_completed' = Append(job_completed, Completion(FALSE, i))
        /\ tool_error' = TRUE
        /\ pc' = "loop"
        /\ i' = i + 1
        /\ UNCHANGED <<procVars, alive>>
  /\ UNCHANGED <<uiVars, jobVars, is_cancelled, duration, renamed_count,
                 progress_updated, status_updated, begun, renamed, cancel_i,
                 disk, waited, last_notified, progress_for>>

\* subprocess.Popen(cmd, ...): the process starts, or Popen raises and the
\* except clause of the loop emits the failure.
Launch ==
  /\ pc = "launch"
  /\ launched' = launched \cup {i}
  /\ \/ /\ proc' = "running"
        /\ returncode' = 0
        /\ terminated' = FALSE
        /\ lines_read' = 0
        /\ last_time' = 0
        /\ pc' = "read"
        /\ alive' = alive \cup {i}
        /\ UNCHANGED <<job_completed, tool_error>>
     \/ /\ job_completed' = Append(job_completed, Completion(FALSE, i))
        /\ tool_error' = TRUE
        /\ pc' = "done"
        /\ UNCHANGED <<procVars, alive>>
  /\ UNCHANGED <<uiVars, jobVars, i, is_cancelled, duration, renamed_count,
                 progress_updated, status_updated, begun, renamed, cancel_i,
                 disk, waited, last_notified, progress_for>>

\* One iteration of `for line in iter(process.stderr.readline, "")`.
\* t is the time stamp of the line (NoTime: the line has none).
ReadLine ==
  /\ pc = "read"
  /\ proc = "running"
  /\ lines_read < MaxLines
  /\ IF is_cancelled
       THEN /\ terminated' = TRUE
            /\ pc' = "wait"
            /\ UNCHANGED <<lines_read, last_time, progress_updated,
                           last_notified, progress_for>>
       ELSE \E t \in {NoTime} \cup (last_time .. MaxElapsed) :
            /\ lines_read' = lines_read + 1
            /\ last_time' = IF t = NoTime THEN last_time ELSE t
            /\ IF t # NoTime /\ duration > 0
                 THEN /\ progress_updated' =
                           Emit(progress_updated,
                                OverallProgress(i, FileProgress(t, duration),
                                                total_files))
                      /\ last_notified' = i
                      /\ progress_for' = progress_for \cup {i}
                 ELSE UNCHANGED <<progress_updated, last_notified,
                                  progress_for>>
            /\ pc' = "read"
            /\ terminated' = terminated
  /\ UNCHANGED <<uiVars, jobVars, i, is_cancelled, duration, proc, returncode,
                 renamed_count, status_updated, job_completed, begun,
                 launched, renamed, tool_error, cancel_i,
                 disk, alive, waited>>

\* readline returns "": the stream is closed, the read loop ends.
ReadEOF ==
  /\ pc = "read"
  /\ proc = "exited"
  /\ pc' = "wait"
  /\ UNCHANGED <<uiVars, jobVars, i, is_cancelled, duration, procVars, renamed_count,
                 progress_updated, status_updated, job_completed, begun,
                 launched, renamed, tool_error, cancel_i,
                 disk, alive, waited, last_notified, progress_for>>

\* readline raises (for instance a decoding error): the except clause of
\* the loop emits the failure and returns; the process is not waited for.
ReadRaises ==
  /\ pc = "read"
  /\ job_completed' = Append(job_completed, Completion(FALSE, i))
  /\ tool_error' = TRUE
  /\ pc' = "done"
  /\ UNCHANGED <<uiVars, jobVars, i, is_cancelled, duration, procVars, renamed_count,
                 progress_updated, status_updated, begun, launched, renamed,
                 cancel_i,
                 disk, alive, waited, last_notified, progress_for>>

\* Wait that goes on to the next file whatever the return code.
WaitIgnoresReturncode ==
  /\ pc = "wait"
  /\ proc = "exited"
  /\ job_completed' = job_completed
  /\ pc' = "loop"
  /\ i' = i + 1
  /\ waited' = waited \cup {i}
  /\ UNCHANGED <<uiVars, jobVars, is_cancelled, duration, procVars, renamed_count,
                 progress_updated, status_updated, begun, launched, renamed,
                 tool_error, cancel_i,
                 disk, alive, last_notified, progress_for>>

\* The loop without process.wait(): it goes on to the next file at once.
WaitSkipped ==
  /\ pc = "wait"
  /\ job_completed' = job_completed
  /\ pc' = "loop"
  /\ i' = i + 1
  /\ UNCHANGED <<uiVars, jobVars, is_cancelled, duration, procVars, renamed_count,
                 progress_updated, status_updated, begun, launched, renamed,
                 tool_error, cancel_i,
                 disk, alive, waited, last_notified, progress_for>>

\* Wait whose failure branch emits the completion but does not return.
WaitFailContinues ==
  /\ pc = "wait"
  /\ proc = "exited"
  /\ job_completed' = IF returncode # 0 /\ ~is_cancelled
                        THEN Append(job_completed, Completion(FALSE, i))
                        ELSE job_completed
  /\ pc' = "loop"
  /\ i' = i + 1
  /\ waited' = waited \cup {i}
  /\ UNCHANGED <<uiVars, jobVars, is_cancelled, duration, procVars, renamed_count,
                 progress_updated, status_updated, begun, launched, renamed,
                 tool_error, cancel_i,
                 disk, alive, last_notified, progress_for>>

\* Wait that launches the same file again whenever its process failed.
WaitRetries ==
  /\ pc = "wait"
  /\ proc = "exited"
  /\ IF returncode # 0 /\ ~is_cancelled
       THEN /\ pc' = "launch"
            /\ i' = i
       ELSE /\ pc' = "loop"
            /\ i' = i + 1
  /\ job_completed' = job_completed
  /\ waited' = waited \cup {i}
  /\ UNCHANGED <<uiVars, jobVars, is_cancelled, duration, procVars, renamed_count,
                 progress_updated, status_updated, begun, launched, renamed,
                 tool_error, cancel_i,
                 disk, alive, last_notified, progress_for>>

\* process.wait() and the check of process.returncode
Wait ==
  /\ pc = "wait"
  /\ proc = "exited"
  /\ IF returncode # 0 /\ ~is_cancelled
       THEN /\ job_completed' = Append(job_completed, Completion(FALSE, i))
            /\ pc' = "done"
            /\ i' = i
       ELSE /\ job_completed' = job_completed
            /\ pc' = "loop"
            /\ i' = i + 1
  /\ waited' = waited \cup {i}
  /\ UNCHANGED <<uiVars, jobVars, is_cancelled, duration, procVars, renamed_count,
                 progress_updated, status_updated, begun, launched, renamed,
                 tool_error, cancel_i,
                 disk, alive, last_notified, progress_for>>

\* RenameFile in which an error of Path.rename ends the job as failed.
RenameFileFailStops ==
  /\ pc = "file"
  /\ job_type = "rename"
  /\ \E parsed \in BOOLEAN, fails \in BOOLEAN :
       /\ (fails => ShouldRename(parsed))
       /\ renamed' = IF ShouldRename(parsed)
                       THEN renamed \cup {i} ELSE renamed
       /\ disk' = IF ShouldRename(parsed) /\ ~fails
                    THEN Rename(disk, SrcPath(i), NewPath(i)) ELSE disk
       /\ renamed_count' = IF parsed /\ ~fails
                             THEN renamed_count + 1 ELSE renamed_count
       /\ status_updated' = status_updated \cup {<<"begin", i>>} \cup
            (IF ~parsed THEN {}
             ELSE IF fails THEN {<<"renamefailed", i>>}
             ELSE {<<"renamed", i>>})
       /\ IF fails
            THEN /\ job_completed' =
                      Append(job_completed, Completion(FALSE, i))
                 /\ pc' = "done"
                 /\ i' = i
                 /\ UNCHANGED <<progress_updated, progress_for>>
            ELSE /\ job_completed' = job_completed
                 /\ progress_updated' =
                      Emit(progress_updated, RenameProgress(i, total_files))
                 /\ progress_for' = progress_for \cup {i}
                 /\ i' = i + 1
                 /\ pc' = "loop"
  /\ last_notified' = i
  /\ UNCHANGED <<uiVars, jobVars, is_cancelled, duration, procVars,
                 begun, launched, tool_error, cancel_i, alive, waited>>

\* One iteration of bulk_rename.  parsed: extract_season_episode gave a
\* usable pair; fails: Path.rename raised (always possible: permissions,
\* and on Windows an existing target).
RenameFile ==
  /\ pc = "file"
  /\ job_type = "rename"
  /\ \E parsed \in BOOLEAN, fails \in BOOLEAN :
       /\ (fails => ShouldRename(parsed))
       /\ renamed' = IF ShouldRename(parsed)
                       THEN renamed \cup {i} ELSE renamed
       /\ disk' = IF ShouldRename(parsed) /\ ~fails
                    THEN Rename(disk, SrcPath(i), NewPath(i)) ELSE disk
       /\ renamed_count' = IF parsed /\ ~fails
                             THEN renamed_count + 1 ELSE renamed_count
       /\ status_updated' = status_updated \cup {<<"begin", i>>} \cup
            (IF ~parsed THEN {}
             ELSE IF fails THEN {<<"renamefailed", i>>}
             ELSE {<<"renamed", i>>})
  /\ progress_updated' =
       Emit(progress_updated, RenameProgress(i, total_files))
  /\ last_notified' = i
  /\ progress_for' = progress_for \cup {i}
  /\ i' = i + 1
  /\ pc' = "loop"
  /\ UNCHANGED <<uiVars, jobVars, is_cancelled, duration, procVars, job_completed,
                 begun, launched, tool_error, cancel_i, alive, waited>>

\* Final without the `if not self.is_cancelled:` guard.
FinalNoCancelCheck ==
  /\ pc = "final"
  /\ progress_updated' =
       IF job_type = "rename" THEN progress_updated
       ELSE Emit(progress_updated, 100)
  /\ job_completed' =
       Append(job_completed,
              IF job_type = "rename" THEN RenameSummary
              ELSE Completion(TRUE, NoFile))
  /\ pc' = "done"
  /\ UNCHANGED <<uiVars, jobVars, i, is_cancelled, duration, procVars, renamed_count,
                 status_updated, begun, launched, renamed, tool_error,
                 cancel_i,
                 disk, alive, waited, last_notified, progress_for>>

\* Final that first reports the earliest skipped video again.
FinalReportsSkipped ==
  /\ pc = "final"
  /\ IF is_cancelled
       THEN UNCHANGED <<progress_updated, job_completed>>
       ELSE /\ progress_updated' =
                 IF job_type = "rename" THEN progress_updated
                 ELSE Emit(progress_updated, 100)
            /\ job_completed' =
                 Append(job_completed,
                        IF job_type = "rename" THEN RenameSummary
                        ELSE Completion(TRUE, NoFile))
  /\ last_notified' =
       IF \E k \in Files : <<"nomatch", k>> \in status_updated
         THEN CHOOSE k \in Files :
                /\ <<"nomatch", k>> \in status_updated
                /\ \A m \in Files :
                     <<"nomatch", m>> \in status_updated => k <= m
         ELSE last_notified
  /\ pc' = "done"
  /\ UNCHANGED <<uiVars, jobVars, i, is_cancelled, duration, procVars, renamed_count,
                 status_updated, begun, launched, renamed, tool_error,
                 cancel_i,
                 disk, alive, waited, progress_for>>

\* Final without progress_updated.emit(100).
FinalNoHundred ==
  /\ pc = "final"
  /\ IF is_cancelled
       THEN UNCHANGED job_completed
       ELSE job_completed' =
              Append(job_completed,
                     IF job_type = "rename" THEN RenameSummary
                     ELSE Completion(TRUE, NoFile))
  /\ pc' = "done"
  /\ UNCHANGED <<uiVars, jobVars, i, is_cancelled, duration, procVars, renamed_count,
                 progress_updated, status_updated, begun, launched, renamed,
                 tool_error, cancel_i,
                 disk, alive, waited, last_notified, progress_for>>

\* After the loop: `if not self.is_cancelled:` emit 100 and the completion
\* (bulk_rename emits the completion only).
Final ==
  /\ pc = "final"
  /\ IF is_cancelled
       THEN UNCHANGED <<progress_updated, job_completed>>
       ELSE /\ progress_updated' =
                 IF job_type = "rename" THEN progress_updated
                 ELSE Emit(progress_updated, 100)
            /\ job_completed' =
                 Append(job_completed,
                        IF job_type = "rename" THEN RenameSummary
                        ELSE Completion(TRUE, NoFile))
  /\ pc' = "done"
  /\ UNCHANGED <<uiVars, jobVars, i, is_cancelled, duration, procVars, renamed_count,
                 status_updated, begun, launched, renamed, tool_error,
                 cancel_i,
                 disk, alive, waited, last_notified, progress_for>>

\* ---- the transcoder process ----

\* The process closes its streams and exits, by itself or after terminate().
ProcExit ==
  /\ proc = "running"
  /\ proc' = "exited"
  /\ \E rc \in {0, 1} :
       /\ returncode' = rc
       /\ tool_error' = (tool_error \/ rc # 0)
  /\ alive' = alive \ {i}
  /\ UNCHANGED <<uiVars, jobVars, pc, i, is_cancelled, duration, terminated,
                 lines_read, last_time, renamed_count, progress_updated,
                 status_updated, job_completed, begun, launched, renamed,
                 cancel_i,
                 disk, waited, last_notified, progress_for>>

Worker ==
  \/ run
  \/ LoopCheck
  \/ ExtractBegin
  \/ MatchBegin
  \/ Launch
  \/ ReadLine
  \/ ReadEOF
  \/ ReadRaises
  \/ Wait
  \/ RenameFile
  \/ Final

Next ==
  \/ cancel
  \/ Worker
  \/ ProcExit

Spec == Init /\ [][Next]_vars

\* The worker thread keeps running, and every process eventually exits.
FairSpec == Spec /\ WF_vars(Worker) /\ WF_vars(ProcExit)

TypeOK ==
  /\ job_type \in JobTypes
  /\ total_files \in 1 .. MaxFiles
  /\ pc \in {"start", "loop", "file", "launch", "read", "wait", "final", "done"}
  /\ i \in 0 .. total_files
  /\ is_cancelled \in BOOLEAN
  /\ proc \in {"none", "running", "exited"}
  /\ returncode \in {0, 1}
  /\ lines_read \in 0 .. MaxLines
  /\ begun \subseteq Files
  /\ launched \subseteq begun
  /\ renamed \subseteq begun


\* The worker's variables when no worker of the engine model is looked at.
WorkerIdle ==
  /\ job_type = "extract"
  /\ total_files = 1
  /\ has_companion = [k \in {0} |-> FALSE]
  /\ preview_mode = FALSE
  /\ pc = "start"
  /\ i = 0
  /\ is_cancelled = FALSE
  /\ duration = 0
  /\ proc = "none"
  /\ returncode = 0
  /\ terminated = FALSE
  /\ lines_read = 0
  /\ last_time = 0
  /\ renamed_count = 0
  /\ progress_updated = <<>>
  /\ status_updated = {}
  /\ job_completed = <<>>
  /\ begun = {}
  /\ launched = {}
  /\ renamed = {}
  /\ tool_error = FALSE
  /\ cancel_i = NoFile
  /\ target = [k \in {0} |-> 1]
  /\ existing = {}
  /\ disk = InitialDisk
  /\ alive = {}
  /\ waited = {}
  /\ last_notified = NoFile
  /\ progress_for = {}

\* ---- BulkRenamingTab: the handlers of the UI thread ----

\* BulkRenamingTab.__init__; the environment decides whether the show can
\* be found.
TabInit ==
  /\ WorkerIdle
  /\ MatchIdle
  /\ CallIdle
  /\ media_files = <<>>
  /\ input_files = <<>>
  /\ same_list = FALSE
  /\ filename = [m \in MediaIds |-> "clip.mkv"]
  /\ next_media = 0
  /\ preview_data = <<>>
  /\ show_name = ""
  /\ use_api = FALSE
  /\ template_title = TRUE
  /\ preview_checked = TRUE
  /\ show_found \in BOOLEAN
  /\ rename_btn = TRUE
  /\ worker_state = "idle"
  /\ worker_idx = 0
  /\ worker_cancel = FALSE

Titles == [MediaIds -> BOOLEAN]

\* on_files_added with one new path: a new MediaFile is appended to the
\* list self.media_files refers to
on_files_added ==
  /\ next_media < MaxMedia
  /\ \E name \in Filenames, titles \in Titles :
       /\ filename' = [filename EXCEPT ![next_media] = name]
       /\ media_files' = Append(media_files, next_media)
       /\ input_files' = IF same_list THEN Append(input_files, next_media)
                          ELSE input_files
       /\ preview_data' = update_preview(media_files', filename', show_name,
                                         use_api, template_title, titles)
  /\ next_media' = next_media + 1
  /\ UNCHANGED <<callVars, workerVars, matchVars, same_list, show_name, use_api,
                 template_title, preview_checked, show_found, rename_btn,
                 worker_state, worker_idx, worker_cancel>>

\* clear_files: self.media_files is bound to a new empty list
clear_files ==
  /\ media_files' = <<>>
  /\ same_list' = FALSE
  /\ UNCHANGED <<callVars, workerVars, matchVars, input_files, filename, next_media,
                 preview_data, show_name, use_api, template_title,
                 preview_checked, show_found, rename_btn, worker_state,
                 worker_idx, worker_cancel>>

\* _remove_selected_files with one selected row: self.media_files.pop(row)
remove_selected_files ==
  /\ \E row \in DOMAIN media_files, titles \in Titles :
       /\ media_files' = Pop(media_files, row)
       /\ input_files' = IF same_list THEN Pop(input_files, row)
                          ELSE input_files
       /\ preview_data' = update_preview(media_files', filename, show_name,
                                         use_api, template_title, titles)
  /\ UNCHANGED <<callVars, workerVars, matchVars, same_list, filename, next_media,
                 show_name, use_api, template_title, preview_checked,
                 show_found, rename_btn, worker_state, worker_idx,
                 worker_cancel>>

\* handle_find_replace with the whole of one file name as the text to find:
\* media_file.filename is replaced in every MediaFile of self.media_files
handle_find_replace ==
  /\ media_files # <<>>
  /\ \E find \in Filenames, replace \in Filenames, titles \in Titles :
       /\ find # replace
       /\ filename' =
            [m \in MediaIds |->
               IF (\E k \in DOMAIN media_files : media_files[k] = m)
                    /\ filename[m] = find
                 THEN replace ELSE filename[m]]
       /\ preview_data' = update_preview(media_files, filename', show_name,
                                         use_api, template_title, titles)
  /\ UNCHANGED <<callVars, workerVars, matchVars, media_files, input_files, same_list,
                 next_media, show_name, use_api, template_title,
                 preview_checked, show_found, rename_btn, worker_state,
                 worker_idx, worker_cancel>>

\* show_name.textChanged, connected to update_preview
show_name_changed ==
  /\ \E text \in {"", "Show"}, titles \in Titles :
       /\ text # show_name
       /\ show_name' = text
       /\ preview_data' = update_preview(media_files, filename, text,
                                         use_api, template_title, titles)
  /\ UNCHANGED <<callVars, workerVars, matchVars, media_files, input_files, same_list,
                 filename, next_media, use_api, template_title,
                 preview_checked, show_found, rename_btn, worker_state,
                 worker_idx, worker_cancel>>

\* filename_template.textChanged, connected to update_preview
filename_template_changed ==
  /\ template_title' = ~template_title
  /\ \E titles \in Titles :
       preview_data' = update_preview(media_files, filename, show_name,
                                      use_api, template_title', titles)
  /\ UNCHANGED <<callVars, workerVars, matchVars, media_files, input_files, same_list,
                 filename, next_media, show_name, use_api, preview_checked,
                 show_found, rename_btn, worker_state, worker_idx,
                 worker_cancel>>

\* use_api.stateChanged, connected to update_preview
use_api_changed ==
  /\ use_api' = ~use_api
  /\ \E titles \in Titles :
       preview_data' = update_preview(media_files, filename, show_name,
                                      use_api', template_title, titles)
  /\ UNCHANGED <<callVars, workerVars, matchVars, media_files, input_files, same_list,
                 filename, next_media, show_name, template_title,
                 preview_checked, show_found, rename_btn, worker_state,
                 worker_idx, worker_cancel>>

\* the preview mode check box is clicked
preview_mode_changed ==
  /\ preview_checked' = ~preview_checked
  /\ UNCHANGED <<callVars, workerVars, matchVars, media_files, input_files, same_list,
                 filename, next_media, preview_data, show_name, use_api,
                 template_title, show_found, rename_btn, worker_state,
                 worker_idx, worker_cancel>>

\* start_renaming, the user confirming: the job gets self.media_files itself
\* as its input_files, and only the start button is disabled
start_renaming ==
  /\ rename_btn
  /\ CanStart
  /\ input_files' = media_files
  /\ same_list' = TRUE
  /\ rename_btn' = FALSE
  /\ worker_state' = "running"
  /\ worker_idx' = 0
  /\ worker_cancel' = FALSE
  /\ UNCHANGED <<callVars, workerVars, matchVars, media_files, filename, next_media,
                 preview_data, show_name, use_api, template_title,
                 preview_checked, show_found>>

\* cancel_btn.clicked, connected to worker.cancel
cancel_clicked ==
  /\ worker_state = "running"
  /\ ~worker_cancel
  /\ worker_cancel' = TRUE
  /\ UNCHANGED <<callVars, workerVars, matchVars, media_files, input_files, same_list,
                 filename, next_media, preview_data, show_name, use_api,
                 template_title, preview_checked, show_found, rename_btn,
                 worker_state, worker_idx>>

\* The tab's worker thread: one iteration of bulk_rename over
\* job.input_files
worker_file ==
  /\ worker_state = "running"
  /\ ~worker_cancel
  /\ worker_idx < Len(input_files)
  /\ worker_idx' = worker_idx + 1
  /\ UNCHANGED <<callVars, workerVars, matchVars, media_files, input_files, same_list,
                 filename, next_media, preview_data, show_name, use_api,
                 template_title, preview_checked, show_found, rename_btn,
                 worker_state, worker_cancel>>

\* The tab's worker thread leaves the loop and returns: job_completed is
\* emitted only `if not self.is_cancelled`
worker_return ==
  /\ worker_state = "running"
  /\ worker_cancel \/ worker_idx >= Len(input_files)
  /\ worker_state' = IF worker_cancel THEN "idle" ELSE "signalled"
  /\ UNCHANGED <<callVars, workerVars, matchVars, media_files, input_files, same_list,
                 filename, next_media, preview_data, show_name, use_api,
                 template_title, preview_checked, show_found, rename_btn,
                 worker_idx, worker_cancel>>

\* on_job_completed(message, True): clear_files() unless the preview mode
\* box is checked
on_job_completed ==
  /\ worker_state = "signalled"
  /\ worker_state' = "idle"
  /\ rename_btn' = TRUE
  /\ IF ~preview_checked
       THEN /\ media_files' = <<>>
            /\ same_list' = FALSE
       ELSE UNCHANGED <<media_files, same_list>>
  /\ UNCHANGED <<callVars, workerVars, matchVars, input_files, filename, next_media,
                 preview_data, show_name, use_api, template_title,
                 preview_checked, show_found, worker_idx, worker_cancel>>

TabNext ==
  \/ on_files_added
  \/ clear_files
  \/ remove_selected_files
  \/ handle_find_replace
  \/ show_name_changed
  \/ filename_template_changed
  \/ use_api_changed
  \/ preview_mode_changed
  \/ start_renaming
  \/ cancel_clicked
  \/ worker_file
  \/ worker_return
  \/ on_job_completed

TabSpec == TabInit /\ [][TabNext]_vars

\* cancel_btn.setEnabled is called beside every rename_btn.setEnabled, with
\* the opposite value (start_renaming, on_job_completed), and the buttons
\* start as enabled and disabled.
cancel_btn == ~rename_btn

\* The worker thread keeps running, and the event loop of the UI thread
\* delivers every signal that was emitted.
TabFairSpec ==
  /\ TabSpec
  /\ WF_vars(worker_file)
  /\ WF_vars(worker_return)
  /\ WF_vars(on_job_completed)

TabTypeOK ==
  /\ next_media \in 0 .. MaxMedia
  /\ \A k \in DOMAIN media_files : media_files[k] < next_media
  /\ \A k \in DOMAIN input_files : input_files[k] < next_media
  /\ filename \in [MediaIds -> Filenames]
  /\ worker_state \in {"idle", "running", "signalled"}
  /\ worker_idx \in 0 .. MaxMedia
  /\ (same_list => input_files = media_files)
  /\ (media_files # <<>> => Len(preview_data) = Len(media_files))

\* ---- companion matching: the file lists of the merging tab ----

\* A video is in the list; no companion path yet.
MatchInit ==
  /\ WorkerIdle
  /\ TabIdle
  /\ CallIdle
  /\ video_stem \in Stems
  /\ audio_files = <<>>
  /\ matching_audio = <<>>

\* One companion path is added, and the companions of the video are
\* matched again.
on_audio_files_added ==
  /\ Len(audio_files) < MaxAudio
  /\ \E stem \in Stems : audio_files' = Append(audio_files, stem)
  /\ matching_audio' = MatchingAudio(video_stem, audio_files')
  /\ UNCHANGED <<callVars, workerVars, tabVars, video_stem>>

\* clear_audio_files
clear_audio_files ==
  /\ audio_files # <<>>
  /\ audio_files' = <<>>
  /\ matching_audio' = <<>>
  /\ UNCHANGED <<callVars, workerVars, tabVars, video_stem>>

MatchNext ==
  \/ on_audio_files_added
  \/ clear_audio_files

MatchSpec == MatchInit /\ [][MatchNext]_vars

\* ---- extract_season_episode (worker.py and utils.py) ----

NameChars == {"S", "E", "x", "-", "0", "1"}
Names == UNION {[1 .. n -> NameChars] : n \in 0 .. MaxName}
DigitChars == {"0", "1", "2", "3", "4", "5", "6", "7", "8", "9"}
None == -1          \* Python's None in a returned pair

\* The patterns in the order both functions try them, each of the shape
\* lead (\d..) sep (\d..), matched with re.IGNORECASE.  The third pattern,
\* Season\s*(\d..).*Episode\s*(\d..), is left out: it needs letters that
\* no name over NameChars has.  \s* matches nothing in these names.
Patterns ==
  << [lead |-> {"S", "s"}, sep |-> {"E", "e"}],
     [lead |-> {},         sep |-> {"x", "X"}],
     [lead |-> {},         sep |-> {"-"}] >>

\* Number of digits of name from position q on.
RECURSIVE DigitRun(_, _)
DigitRun(name, q) ==
  IF q \in DOMAIN name /\ name[q] \in DigitChars
    THEN 1 + DigitRun(name, q + 1) ELSE 0

\* int() of the len digits of name from position q on.
RECURSIVE IntOf(_, _, _)
IntOf(name, q, len) ==
  IF len = 0 THEN 0
  ELSE 10 * IntOf(name, q, len - 1)
       + (CHOOSE v \in 0 .. 9 :
            name[q + len - 1] = <<"0", "1", "2", "3", "4", "5", "6", "7",
                                  "8", "9">>[v + 1])

\* First digit position of a match of pattern pat that starts at p.
FirstDigit(pat, p) == IF pat.lead = {} THEN p ELSE p + 1

\* Lengths the first group can have in a match of pat at p; a group has at
\* most maxd digits.
FirstGroups(name, pat, p, maxd) ==
  LET q == FirstDigit(pat, p)
  IN  IF p \notin DOMAIN name THEN {}
      ELSE IF pat.lead # {} /\ name[p] \notin pat.lead THEN {}
      ELSE {n \in 1 .. maxd :
              /\ n <= DigitRun(name, q)
              /\ (q + n) \in DOMAIN name
              /\ name[q + n] \in pat.sep
              /\ DigitRun(name, q + n + 1) >= 1}

Min(a, b) == IF a <= b THEN a ELSE b
Largest(set) == CHOOSE n \in set : \A m \in set : m <= n
Smallest(set) == CHOOSE n \in set : \A m \in set : n <= m

\* re.search(pat, name): the leftmost match, both groups as long as they
\* can be; <<None, None>> for no match.
Search(name, pat, maxd) ==
  LET starts == {p \in DOMAIN name : FirstGroups(name, pat, p, maxd) # {}}
  IN  IF starts = {} THEN <<None, None>>
      ELSE LET p  == Smallest(starts)
               q  == FirstDigit(pat, p)
               n1 == Largest(FirstGroups(name, pat, p, maxd))
               n2 == Min(maxd, DigitRun(name, q + n1 + 1))
           IN  <<IntOf(name, q, n1), IntOf(name, q + n1 + 1, n2)>>

\* The loop over the patterns: the first pattern that matches decides.
RECURSIVE FirstMatch(_, _, _)
FirstMatch(name, k, maxd) ==
  IF k > Len(Patterns) THEN <<None, None>>
  ELSE LET found == Search(name, Patterns[k], maxd)
       IN  IF found # <<None, None>> THEN found
           ELSE FirstMatch(name, k + 1, maxd)

\* utils.extract_season_episode: groups are \d+
utils_extract_season_episode(name) == FirstMatch(name, 1, MaxName + 1)

\* FFmpegWorker.extract_season_episode: groups are \d{1,2}
extract_season_episode(name) == FirstMatch(name, 1, 2)

ParseInit ==
  /\ WorkerIdle
  /\ TabIdle
  /\ MatchIdle
  /\ args \in Names
  /\ called = FALSE
  /\ result = <<>>

\* Both functions are called with the file name.
call_extract_season_episode ==
  /\ ~called
  /\ called' = TRUE
  /\ result' = [worker |-> extract_season_episode(args),
                utils |-> utils_extract_season_episode(args)]
  /\ UNCHANGED <<workerVars, tabVars, matchVars, args>>

\* The truth value Python gives an Optional[int]
Truthy(number) == number # None /\ number # 0

\* `if season and episode:` of bulk_rename
HasSeasonEpisode(pair) == Truthy(pair[1]) /\ Truthy(pair[2])

\* One iteration of bulk_rename, up to its decision: the file gets a new
\* name (is renamed, or in preview mode reported as renamed) or is left
\* untouched.
bulk_rename_file ==
  /\ ~called
  /\ called' = TRUE
  /\ result' = [worker |-> extract_season_episode(args),
                utils |-> utils_extract_season_episode(args),
                renamed |-> HasSeasonEpisode(extract_season_episode(args))]
  /\ UNCHANGED <<workerVars, tabVars, matchVars, args>>

ParseNext ==
  \/ call_extract_season_episode
  \/ bulk_rename_file

ParseSpec == ParseInit /\ [][ParseNext]_vars

\* ---- build_new_filename (worker.py; the tab has the same function) ----
\* Text is a sequence of characters.

DigitSeq == <<"0", "1", "2", "3", "4", "5", "6", "7", "8", "9">>

\* str(n) for n >= 0
RECURSIVE Str(_)
Str(n) == IF n < 10 THEN <<DigitSeq[n + 1]>>
          ELSE Str(n \div 10) \o <<DigitSeq[(n % 10) + 1]>>

\* format(n, "02d")
Pad2(n) == IF n < 10 THEN <<"0">> \o Str(n) ELSE Str(n)

\* A number formatted as it stands, without the zero padding.
Unpadded(n) == Str(n)

\* The characters re.sub(r'[<>:"/\\|?*]', '', text) removes.
Forbidden == {"<", ">", ":", "\"", "/", "\\", "|", "?", "*"}

\* re.sub(r'[<>:"/\\|?*]', '', text)
RECURSIVE Clean(_)
Clean(text) ==
  IF text = <<>> THEN <<>>
  ELSE (IF Head(text) \in Forbidden THEN <<>> ELSE <<Head(text)>>)
       \o Clean(Tail(text))

\* re.search(r'\((\d{4})\)', clean_name): the four digits of the leftmost
\* match, or "" for none.
YearOf(clean_name) ==
  LET at == {p \in DOMAIN clean_name :
               /\ clean_name[p] = "("
               /\ DigitRun(clean_name, p + 1) >= 4
               /\ (p + 5) \in DOMAIN clean_name
               /\ clean_name[p + 5] = ")"}
  IN  IF at = {} THEN <<>>
      ELSE SubSeq(clean_name, Smallest(at) + 1, Smallest(at) + 4)

\* The parts a template is made of in the model: a character that stands
\* for itself, or a replacement field.
TemplateParts ==
  {"_", "{name}", "{season:02d}", "{season}", "{episode:02d}", "{title}",
   "{ext}", "{year}", "{unknown}", "{name:02d}", "{0}"}
Templates == UNION {[1 .. n -> TemplateParts] : n \in 0 .. MaxTemplate}

\* str.format raises for this part: KeyError for a name that is no keyword
\* argument, ValueError for a number format applied to a string, IndexError
\* for a positional field.
PartRaises(part) == part \in {"{unknown}", "{name:02d}", "{0}"}

Raised == <<"raised">>   \* the call ended with an exception

\* What str.format puts for one part.
FormatPart(part, f) ==
  CASE part = "{name}"         -> f.name
    [] part = "{season:02d}"   -> Pad2(f.season)
    [] part = "{season}"       -> Str(f.season)
    [] part = "{episode:02d}"  -> Pad2(f.episode)
    [] part = "{title}"        -> f.title
    [] part = "{ext}"          -> f.ext
    [] part = "{year}"         -> f.year
    [] OTHER                   -> <<part>>

\* template.format(name=..., season=..., episode=..., title=..., ext=...,
\* year=...)
RECURSIVE Format(_, _)
Format(template, f) ==
  IF template = <<>> THEN <<>>
  ELSE IF PartRaises(Head(template)) THEN Raised
  ELSE LET rest == Format(Tail(template), f)
       IN  IF rest = Raised THEN Raised
           ELSE FormatPart(Head(template), f) \o rest

\* A fallback that leaves the zero padding out.
FallbackUnpadded(clean_name, season, episode, extension) ==
  clean_name \o <<" ", "-", " ", "S">> \o Unpadded(season) \o <<"E">>
    \o Unpadded(episode) \o extension

\* f"{clean_name} - S{season:02d}E{episode:02d}{extension}"
Fallback(clean_name, season, episode, extension) ==
  clean_name \o <<" ", "-", " ", "S">> \o Pad2(season) \o <<"E">>
    \o Pad2(episode) \o extension

\* FFmpegWorker.build_new_filename
worker_build_new_filename(show, season, episode, episode_title, extension, template) ==
  LET clean_name  == Clean(show)
      clean_title == IF episode_title # <<>> THEN Clean(episode_title)
                     ELSE <<>>
      formatted   == Format(template,
                            [name |-> clean_name, season |-> season,
                             episode |-> episode, title |-> clean_title,
                             ext |-> extension, year |-> YearOf(clean_name)])
  IN  IF formatted = Raised
        THEN Fallback(clean_name, season, episode, extension)
        ELSE formatted

ShowNames == {<<"A">>, <<"A", ":", "?">>,
              <<"A", "(", "1", "9", "9", "9", ")">>}
Titles2 == {<<>>, <<"T", "/">>}
Numbers == {7, 12, 345}
Extension == <<".", "m", "k", "v">>

FormatInit ==
  /\ WorkerIdle
  /\ TabIdle
  /\ MatchIdle
  /\ args \in [show : ShowNames, season : Numbers, episode : Numbers,
               title : Titles2, template : Templates]
  /\ called = FALSE
  /\ result = <<>>

call_build_new_filename ==
  /\ ~called
  /\ called' = TRUE
  /\ result' = worker_build_new_filename(args.show, args.season,
                                         args.episode, args.title,
                                         Extension, args.template)
  /\ UNCHANGED <<workerVars, tabVars, matchVars, args>>

FormatNext == call_build_new_filename

FormatSpec == FormatInit /\ [][FormatNext]_vars

\* ---- the new name in the preview and in the rename job ----

\* BulkRenamingTab.build_new_filename: the template is the text of the
\* template field, which start_renaming passes to the job.
tab_build_new_filename(show, season, episode, episode_title, extension, template) ==
  LET clean_name  == Clean(show)
      clean_title == IF episode_title # <<>> THEN Clean(episode_title)
                     ELSE <<>>
      formatted   == Format(template,
                            [name |-> clean_name, season |-> season,
                             episode |-> episode, title |-> clean_title,
                             ext |-> extension, year |-> YearOf(clean_name)])
  IN  IF formatted = Raised
        THEN Fallback(clean_name, season, episode, extension)
        ELSE formatted

NotFoundWords == <<"N", "o", "t", " ", "F", "o", "u", "n", "d">>
EpisodeWord == <<"E", "p", "i", "s", "o", "d", "e", " ">>
\* the warning sign is written as one character, "(!)"
WarningSign == "(!)"
CouldNotParseName == <<WarningSign, " Could not parse S/E">>

\* FFmpegWorker.get_episode_title: f"Episode {episode}"
get_episode_title(episode) == EpisodeWord \o Str(episode)

\* update_preview: the new name of one file.  show: search_show was asked
\* and found the show; api_title: what api_client.get_episode_title returns
\* (<<>>: None).
preview_new_name(name, show_text, show, api_title, template) ==
  LET pair == utils_extract_season_episode(name)
  IN  IF show_text = <<>> THEN <<>>
      ELSE IF HasSeasonEpisode(pair)
        THEN tab_build_new_filename(
               show_text, pair[1], pair[2],
               IF show THEN (IF api_title # <<>> THEN api_title
                             ELSE EpisodeWord \o NotFoundWords)
               ELSE <<>>,
               Extension, template)
      ELSE CouldNotParseName

\* 'valid' of the preview entry
preview_valid(new_name) ==
  /\ new_name # <<>>
  /\ ~In(<<WarningSign>>, new_name)
  /\ ~In(NotFoundWords, new_name)

\* bulk_rename: the new name of one file (<<>>: the file is left alone)
bulk_rename_new_name(name, show_text, api, template) ==
  LET pair == extract_season_episode(name)
  IN  IF HasSeasonEpisode(pair)
        THEN worker_build_new_filename(
               show_text, pair[1], pair[2],
               IF api THEN get_episode_title(pair[2]) ELSE <<>>,
               Extension, template)
      ELSE <<>>

PreviewNames == {<<"S", "1", "E", "2">>, <<"S", "1", "E", "1", "1", "1">>,
                 <<"S", "0", "E", "1">>, <<"c">>}
ApiTitles == {<<>>, <<"P">>, EpisodeWord \o <<"2">>}
PreviewTemplates ==
  {<<"{name}", " ", "-", " ", "S", "{season:02d}", "E", "{episode:02d}",
     " ", "-", " ", "{title}", "{ext}">>,
   <<"{name}", " ", "S", "{season:02d}", "E", "{episode:02d}", "{ext}">>}

PreviewInit ==
  /\ WorkerIdle
  /\ TabIdle
  /\ MatchIdle
  /\ args \in [name : PreviewNames, show : ShowNames, api : BOOLEAN,
               found : BOOLEAN, api_title : ApiTitles,
               template : PreviewTemplates]
  /\ called = FALSE
  /\ result = <<>>

\* The preview of a file, then the rename job started with the same show
\* name, template, use_api setting and file name.
preview_then_rename ==
  /\ ~called
  /\ called' = TRUE
  /\ LET shown == preview_new_name(args.name, args.show,
                                   args.api /\ args.found, args.api_title,
                                   args.template)
     IN  result' = [preview |-> shown,
                    valid |-> preview_valid(shown),
                    applied |-> bulk_rename_new_name(args.name, args.show,
                                                     args.api, args.template)]
  /\ UNCHANGED <<workerVars, tabVars, matchVars, args>>

PreviewNext == preview_then_rename

PreviewSpec == PreviewInit /\ [][PreviewNext]_vars

\* ---- the command builders of worker.py ----
\* A command is a sequence of arguments; an argument is a text, the
\* sequence of the pieces it is put together from.

Tool == <<"ffmpeg">>            \* get_ffmpeg_path()
Missing == "missing"            \* a key the settings do not hold

\* Path(filename).stem of a file name given by its dot-separated parts:
\* the name without its last suffix.
RECURSIVE JoinDots(_)
JoinDots(parts) ==
  IF Len(parts) = 1 THEN <<parts[1]>>
  ELSE <<parts[1], ".">> \o JoinDots(Tail(parts))

Stem(parts) ==
  IF Len(parts) = 1 THEN JoinDots(parts)
  ELSE JoinDots(SubSeq(parts, 1, Len(parts) - 1))

\* self.job.settings.get(key, default); a check box setting is "True" or
\* "False"
Setting(value, default) == IF value = Missing THEN default ELSE value

\* A codec choice that stream-copies mp3.
CodecArgsCopy(audio_format) ==
  IF audio_format = "aac" THEN << <<"-acodec">>, <<"aac">> >>
  ELSE IF audio_format = "mp3" THEN << <<"-acodec">>, <<"copy">> >>
  ELSE IF audio_format = "flac" THEN << <<"-acodec">>, <<"flac">> >>
  ELSE IF audio_format = "ogg" THEN << <<"-acodec">>, <<"libvorbis">> >>
  ELSE <<>>

\* The '-acodec' arguments: aac for aac, else codecs.get(audio_format), and
\* nothing when the format is not in the table.
CodecArgs(audio_format) ==
  IF audio_format = "aac" THEN << <<"-acodec">>, <<"aac">> >>
  ELSE IF audio_format = "mp3" THEN << <<"-acodec">>, <<"libmp3lame">> >>
  ELSE IF audio_format = "flac" THEN << <<"-acodec">>, <<"flac">> >>
  ELSE IF audio_format = "ogg" THEN << <<"-acodec">>, <<"libvorbis">> >>
  ELSE <<>>

\* FFmpegWorker.build_extract_audio_cmd
build_extract_audio_cmd(media_file, output_directory, format_setting) ==
  LET audio_format == Setting(format_setting, "aac")
      output_path  == <<output_directory, "/">> \o Stem(media_file.filename)
                        \o <<".", audio_format>>
  IN  <<Tool, <<"-i">>, media_file.path, <<"-vn">> >>
        \o CodecArgs(audio_format)
        \o << <<"-y">>, output_path >>

\* cmd.extend(['-i', str(path)]) for every companion path
RECURSIVE InputArgs(_)
InputArgs(paths) ==
  IF paths = <<>> THEN <<>>
  ELSE << <<"-i">>, Head(paths) >> \o InputArgs(Tail(paths))

\* Video maps that do not look at preserve_original.
VideoMapsAlwaysPreserve(preserve_original) ==
  << <<"-map">>, <<"0">>, <<"-map">>, <<"-0:a">> >>

\* The maps of the video's own streams
VideoMaps(preserve_original) ==
  IF Setting(preserve_original, "True") = "True"
    THEN << <<"-map">>, <<"0">>, <<"-map">>, <<"-0:a">> >>
    ELSE << <<"-map">>, <<"0:v">>, <<"-map">>, <<"0:s?">> >>

\* cmd.extend(['-map', f'{i + 1}:a']) for i in range(n), from i = first on
RECURSIVE AudioMaps(_, _)
AudioMaps(first, n) ==
  IF first >= n THEN <<>>
  ELSE << <<"-map">>, Str(first + 1) \o <<":a">> >> \o AudioMaps(first + 1, n)

\* cmd.extend([f'-metadata:s:{kind}:{i}', f'language={lang}']) for
\* i, lang in enumerate(languages), from index idx on
RECURSIVE LanguageTags(_, _, _)
LanguageTags(kind, idx, languages) ==
  IF languages = <<>> THEN <<>>
  ELSE << <<"-metadata:s:", kind, ":">> \o Str(idx),
          <<"language=", Head(languages)>> >>
       \o LanguageTags(kind, idx + 1, Tail(languages))

\* FFmpegWorker.build_merge_audio_cmd
build_merge_audio_cmd(video_file, output_directory, preserve_original, matching, languages) ==
  LET output_path == <<output_directory, "/">> \o video_file.stem
                       \o <<"_merged.mkv">>
  IN  <<Tool, <<"-i">>, video_file.path>>
        \o InputArgs(matching)
        \o VideoMaps(preserve_original)
        \o AudioMaps(0, Len(matching))
        \o LanguageTags("a", 0, languages)
        \o << <<"-c">>, <<"copy">>, <<"-y">>, output_path >>

\* str.replace(old, new) on a text of characters, new being a text
RECURSIVE Replace(_, _, _)
Replace(text, old, new) ==
  IF text = <<>> THEN <<>>
  ELSE (IF Head(text) = old THEN new ELSE <<Head(text)>>)
       \o Replace(Tail(text), old, new)

\* The two replacements in the other order.
EscapeColonsFirst(sub_path) ==
  Replace(Replace(sub_path, ":", <<"\\", ":">>), "\\", <<"/">>)

\* str(matching_subs[0]).replace('\\', '/').replace(':', '\\:')
Escape(sub_path) ==
  Replace(Replace(sub_path, "\\", <<"/">>), ":", <<"\\", ":">>)

\* cmd.extend(['-map', f'{i+1}']) for i in range(1, n), from i = first on
RECURSIVE SubtitleMaps(_, _)
SubtitleMaps(first, n) ==
  IF first >= n THEN <<>>
  ELSE << <<"-map">>, Str(first + 1) >> \o SubtitleMaps(first + 1, n)

\* A default disposition added whenever the setting is on.
DefaultDispositionAlways(default_subtitle, languages) ==
  IF Setting(default_subtitle, "False") = "True"
    THEN << <<"-disposition:s:0">>, <<"default">> >>
    ELSE <<>>

\* if settings.get('default_subtitle', False) and languages: ...
DefaultDisposition(default_subtitle, languages) ==
  IF Setting(default_subtitle, "False") = "True" /\ languages # <<>>
    THEN << <<"-disposition:s:0">>, <<"default">> >>
    ELSE <<>>

Soft == "Soft Subtitles (Toggleable)"
Hard == "Hard Subtitles (Burned-in)"

\* FFmpegWorker.build_embed_subtitles_cmd
build_embed_subtitles_cmd(video_file, output_directory, subtitle_type, default_subtitle, matching, languages) ==
  LET output_path == <<output_directory, "/">> \o video_file.stem
                       \o <<"_subtitled.mkv">>
  IN  IF Setting(subtitle_type, Soft) = Hard
        THEN IF matching = <<>> THEN <<>>
             ELSE <<Tool, <<"-i">>, video_file.path, <<"-vf">>,
                    <<"subtitles='">> \o Escape(matching[1]) \o <<"'">>,
                    <<"-y">>, output_path>>
        ELSE <<Tool, <<"-i">>, video_file.path>>
               \o InputArgs(matching)
               \o << <<"-map">>, <<"0">>, <<"-map">>, <<"1">> >>
               \o SubtitleMaps(1, Len(matching))
               \o << <<"-c">>, <<"copy">>, <<"-c:s">>, <<"mov_text">> >>
               \o LanguageTags("s", 0, languages)
               \o DefaultDisposition(default_subtitle, languages)
               \o << <<"-y">>, output_path >>

\* The arguments of the calls.
MediaFiles ==
  [path : {<<"/in/video.mkv">>, <<"/in/b.mp4">>},
   filename : {<<"video", "mkv">>, <<"new", "name", "mkv">>, <<"b", "mp4">>,
               <<"raw">>}]
Formats == {"aac", "mp3", "flac", "ogg", "wav", Missing}
OutputDirs == {"/out", "/test/output"}
VideoFiles == {[path |-> <<"/in/video.mkv">>, stem |-> <<"video">>]}
AudioPaths == {<<"/a/video.aac">>, <<"/a/video.de.mp3">>}
SubtitlePaths == {<<"/", "s">>, <<"C", ":", "\\", "s">>, <<"s", ":", "t">>}
Languages == {"eng", "ger"}
ListsOf(set) == UNION {[1 .. n -> set] : n \in 0 .. MaxAudio}

ExtractCalls ==
  [kind : {"extract"}, media_file : MediaFiles, output_directory : OutputDirs,
   format : Formats]
MergeCalls ==
  [kind : {"merge"}, video_file : VideoFiles, output_directory : OutputDirs,
   preserve_original : {"True", "False", Missing},
   matching : ListsOf(AudioPaths), languages : ListsOf(Languages)]
EmbedCalls ==
  [kind : {"embed"}, video_file : VideoFiles, output_directory : OutputDirs,
   subtitle_type : {Soft, Hard, Missing},
   default_subtitle : {"True", "False", Missing},
   matching : ListsOf(SubtitlePaths), languages : ListsOf(Languages)]

\* One video of a merge job: its stem, and the companion paths of
\* settings['audio_files'] with the language the tab puts at the same
\* position of settings['languages'].
MergeFiles ==
  [kind : {"merge_audio"}, video_stem : {<<"a">>},
   audio_files : ListsOf([stem : {<<"a">>, <<"A", "b">>, <<"b">>},
                          language : Languages])]

RaisedCmd == << <<"AttributeError">> >>   \* the call raised
NoCmd == << <<"continue">> >>             \* the video was skipped

\* The stems of the companion paths
StemsOf(files) == [k \in DOMAIN files |-> files[k].stem]

CmdInit ==
  /\ WorkerIdle
  /\ TabIdle
  /\ MatchIdle
  /\ args \in ExtractCalls \cup MergeCalls \cup EmbedCalls \cup MergeFiles
  /\ called = FALSE
  /\ result = <<>>

call_build_extract_audio_cmd ==
  /\ ~called
  /\ args.kind = "extract"
  /\ called' = TRUE
  /\ result' = build_extract_audio_cmd(args.media_file, args.output_directory,
                                       args.format)
  /\ UNCHANGED <<workerVars, tabVars, matchVars, args>>

call_build_merge_audio_cmd ==
  /\ ~called
  /\ args.kind = "merge"
  /\ called' = TRUE
  /\ result' = build_merge_audio_cmd(args.video_file, args.output_directory,
                                     args.preserve_original, args.matching,
                                     args.languages)
  /\ UNCHANGED <<workerVars, tabVars, matchVars, args>>

call_build_embed_subtitles_cmd ==
  /\ ~called
  /\ args.kind = "embed"
  /\ called' = TRUE
  /\ result' = build_embed_subtitles_cmd(args.video_file,
                                         args.output_directory,
                                         args.subtitle_type,
                                         args.default_subtitle,
                                         args.matching, args.languages)
  /\ UNCHANGED <<workerVars, tabVars, matchVars, args>>

\* merge_audio for one video, up to the command it would launch: the
\* companions are matched, a video without companion is skipped, and the
\* command is asked of self._build_merge_audio_cmd, which the class does not
\* define.
merge_audio_file ==
  /\ ~called
  /\ args.kind = "merge_audio"
  /\ called' = TRUE
  /\ result' = IF MatchingAudio(args.video_stem, StemsOf(args.audio_files))
                    = <<>>
                 THEN NoCmd
                 ELSE RaisedCmd
  /\ UNCHANGED <<workerVars, tabVars, matchVars, args>>

CmdNext ==
  \/ merge_audio_file
  \/ call_build_extract_audio_cmd
  \/ call_build_merge_audio_cmd
  \/ call_build_embed_subtitles_cmd

CmdSpec == CmdInit /\ [][CmdNext]_vars

\* ---- utils.process_paths ----
\* A path is a string. The file system is the set of entries that exist: the
\* directory /d with three files and the directory /d/s.mkv, which holds one
\* file, and two files beside /d. /n.mkv never exists.
Order == <<"/d", "/d/B.MKV", "/d/a.mkv", "/d/c.txt", "/d/s.mkv",
           "/d/s.mkv/e.mkv", "/f.mkv", "/g.txt", "/n.mkv">>
Entries == {Order[k] : k \in 1 .. 8}
Directories == {"/d", "/d/s.mkv"}

\* The directory an entry lies in ("/" for the entries beside /d)
Parent(path) ==
  IF path \in {"/d/B.MKV", "/d/a.mkv", "/d/c.txt", "/d/s.mkv"} THEN "/d"
  ELSE IF path = "/d/s.mkv/e.mkv" THEN "/d/s.mkv"
  ELSE "/"

\* Path(path).suffix
Suffix(path) ==
  IF path = "/d" THEN ""
  ELSE IF path = "/d/B.MKV" THEN ".MKV"
  ELSE IF path \in {"/d/c.txt", "/g.txt"} THEN ".txt"
  ELSE ".mkv"

\* str.lower() of an extension
LowerExt(ext) == IF ext = ".MKV" THEN ".mkv" ELSE ext

\* The position of a string in the order of Python's str comparison
Rank(path) == CHOOSE k \in DOMAIN Order : Order[k] = path

\* The file systems: an entry exists only inside a directory that exists.
FileSystems ==
  {fs \in SUBSET Entries :
     \A entry \in fs : Parent(entry) = "/" \/ Parent(entry) \in fs}

\* A suffix test that does not lower the suffix of the file.
AllowedCaseSensitive(path, allowed_extensions) ==
  Suffix(path) \in {LowerExt(allowed_extensions[k]) :
                      k \in DOMAIN allowed_extensions}

\* file_path.suffix.lower() in lower_extensions
Allowed(path, allowed_extensions) ==
  LowerExt(Suffix(path)) \in {LowerExt(allowed_extensions[k]) :
                                k \in DOMAIN allowed_extensions}

\* os.walk(path): the files of the directory and of every directory below
RECURSIVE Walk(_, _)
Walk(fs, dir) ==
  LET inside == {entry \in fs : Parent(entry) = dir}
  IN  (inside \ Directories)
        \cup UNION {Walk(fs, sub) : sub \in inside \cap Directories}

\* What one element of paths adds to found_files
Found(fs, path, allowed_extensions) ==
  IF path \notin fs THEN {}
  ELSE IF path \in Directories
    THEN {f \in Walk(fs, path) : Allowed(f, allowed_extensions)}
  ELSE IF Allowed(path, allowed_extensions) THEN {path}
  ELSE {}

\* sorted(list(found_files))
RECURSIVE Sorted(_)
Sorted(found_files) ==
  IF found_files = {} THEN <<>>
  ELSE LET first == CHOOSE f \in found_files :
                      \A g \in found_files : Rank(f) <= Rank(g)
       IN  <<first>> \o Sorted(found_files \ {first})

process_paths(fs, paths, allowed_extensions) ==
  Sorted(UNION {Found(fs, paths[k], allowed_extensions) :
                  k \in DOMAIN paths})

GivenPaths == {"/d", "/d/s.mkv", "/d/a.mkv", "/f.mkv", "/g.txt", "/n.mkv"}
ExtensionLists == {<<".mkv">>, <<".MKV">>, <<".txt">>}
PathLists == UNION {[1 .. n -> GivenPaths] : n \in 0 .. MaxPaths}

PathsInit ==
  /\ WorkerIdle
  /\ TabIdle
  /\ MatchIdle
  /\ args \in [fs : FileSystems, paths : PathLists,
               allowed_extensions : ExtensionLists]
  /\ called = FALSE
  /\ result = <<>>

call_process_paths ==
  /\ ~called
  /\ called' = TRUE
  /\ result' = process_paths(args.fs, args.paths, args.allowed_extensions)
  /\ UNCHANGED <<workerVars, tabVars, matchVars, args>>

PathsNext == call_process_paths

PathsSpec == PathsInit /\ [][PathsNext]_vars

\* ---- the progress value of one timestamp line ----
\* The file index, the batch size, the probed duration and the elapsed time
\* of the line, the times in whole seconds.
ProgressInputs ==
  {a \in [i : 0 .. (MaxBatch - 1), total_files : 1 .. MaxBatch,
          duration : 1 .. MaxSeconds, elapsed_time : 0 .. MaxSeconds] :
     a.i < a.total_files}

ProgressInit ==
  /\ WorkerIdle
  /\ TabIdle
  /\ MatchIdle
  /\ args \in ProgressInputs
  /\ called = FALSE
  /\ result = <<>>

\* The value extract_audio emits for a line with a timestamp
emit_overall_progress ==
  /\ ~called
  /\ called' = TRUE
  /\ result' = <<OverallProgress(args.i,
                                 FileProgress(args.elapsed_time,
                                              args.duration),
                                 args.total_files)>>
  /\ UNCHANGED <<workerVars, tabVars, matchVars, args>>

ProgressNext == emit_overall_progress

ProgressSpec == ProgressInit /\ [][ProgressNext]_vars

\* ---- the single-file application (src/EchoMux.py) ----
\* Its FFmpegWorker has the same fields and signals, the same run(), the
\* same cancel() and the same bulk_rename; its extract_audio runs each
\* transcoder with subprocess.run, which returns when the process has
\* exited.  Its extract and rename jobs are modelled.

EchoMuxInit ==
  /\ Init
  /\ job_type \in {"extract", "rename"}

\* extract_audio: the status of the file, then subprocess.run(cmd,
\* check=True) starts the transcoder, or the tool cannot be started
\* (FileNotFoundError passes `except CalledProcessError` and reaches run()).
EchoMuxExtractFile ==
  /\ pc = "file"
  /\ job_type = "extract"
  /\ status_updated' = status_updated \cup {<<"begin", i>>}
  /\ last_notified' = i
  /\ launched' = launched \cup {i}
  /\ \/ /\ proc' = "running"
        /\ returncode' = 0
        /\ terminated' = FALSE
        /\ lines_read' = 0
        /\ last_time' = 0
        /\ alive' = alive \cup {i}
        /\ pc' = "wait"
        /\ UNCHANGED <<job_completed, tool_error>>
     \/ /\ job_completed' = Append(job_completed, Completion(FALSE, NoFile))
        /\ tool_error' = TRUE
        /\ pc' = "done"
        /\ UNCHANGED <<procVars, alive>>
  /\ UNCHANGED <<uiVars, jobVars, i, is_cancelled, duration, renamed_count,
                 progress_updated, begun, renamed, cancel_i, disk, waited,
                 progress_for>>

\* subprocess.run returns when the process has exited: with status 0 the
\* progress of the file is emitted; a non-zero status raises
\* CalledProcessError, and the except clause emits the failure and returns.
EchoMuxRunReturns ==
  /\ pc = "wait"
  /\ proc = "exited"
  /\ waited' = waited \cup {i}
  /\ IF returncode = 0
       THEN /\ progress_updated' =
                 Emit(progress_updated, RenameProgress(i, total_files))
            /\ progress_for' = progress_for \cup {i}
            /\ i' = i + 1
            /\ pc' = "loop"
            /\ UNCHANGED job_completed
       ELSE /\ job_completed' = Append(job_completed, Completion(FALSE, i))
            /\ pc' = "done"
            /\ UNCHANGED <<progress_updated, progress_for, i>>
  /\ UNCHANGED <<uiVars, jobVars, is_cancelled, duration, procVars,
                 renamed_count, status_updated, begun, launched, renamed,
                 tool_error, cancel_i, disk, alive, last_notified>>

\* After the loop of extract_audio: the completion, whether or not the
\* loop was left by `break`.
EchoMuxExtractEnd ==
  /\ pc = "final"
  /\ job_type = "extract"
  /\ job_completed' = Append(job_completed, Completion(TRUE, NoFile))
  /\ pc' = "done"
  /\ UNCHANGED <<uiVars, jobVars, i, is_cancelled, duration, procVars,
                 renamed_count, progress_updated, status_updated, begun,
                 launched, renamed, tool_error, cancel_i, disk, alive,
                 waited, last_notified, progress_for>>

\* After the loop of bulk_rename, which is the one of the package.
EchoMuxRenameEnd ==
  /\ job_type = "rename"
  /\ Final

EchoMuxNext ==
  \/ cancel
  \/ run
  \/ LoopCheck
  \/ EchoMuxExtractFile
  \/ ProcExit
  \/ EchoMuxRunReturns
  \/ EchoMuxExtractEnd
  \/ RenameFile
  \/ EchoMuxRenameEnd

EchoMuxSpec == EchoMuxInit /\ [][EchoMuxNext]_vars

\* ---- properties ----

\* C1: every run of a job ends with exactly one completion event, also a
\* cancelled run.
C1_ExactlyOneCompletion ==
  pc = "done" => Len(job_completed) = 1

\* C2: if cancel() is called before the last input file has finished
\* processing, no completion event with success=true is emitted.
C2_CancelledNeverCompleted ==
  (cancel_i # NoFile /\ cancel_i < total_files) =>
    \A k \in DOMAIN job_completed : ~job_completed[k].success

C2_Witness ==
  /\ pc = "done"
  /\ cancel_i >= 1
  /\ cancel_i < total_files
  /\ job_completed = <<>>

\* C3: once cancel() has been called, no further input file begins, and no
\* process is launched and no rename attempted for a file that had not begun.
C3_NoNewFileAfterCancel ==
  [][is_cancelled =>
       /\ begun' = begun
       /\ launched' \subseteq begun
       /\ renamed' \subseteq begun]_vars

C3_Witness ==
  /\ is_cancelled
  /\ pc = "done"
  /\ launched # {}
  /\ begun # Files
  /\ proc = "exited"
  /\ ~terminated

\* C4: a process that exits non-zero while cancellation has not been
\* requested ends the job with a failure completion naming that file, and no
\* later file is launched.
C4_NonZeroExitFailsJob ==
  (proc = "exited" /\ returncode # 0 /\ ~is_cancelled
     /\ pc \notin {"read", "wait"}) =>
    /\ pc = "done"
    /\ job_completed = <<Completion(FALSE, i)>>
    /\ \A k \in launched : k <= i

C4_Witness ==
  /\ pc = "done"
  /\ proc = "exited"
  /\ returncode # 0
  /\ ~is_cancelled
  /\ i = 0
  /\ total_files > 1
  /\ job_completed = <<Completion(FALSE, 0)>>
  /\ launched = {0}

\* C5: a job that is never cancelled and whose processes all exit with
\* status 0 ends with a completion event with success=true.
C5_SuccessWhenAllExitZero ==
  (pc = "done" /\ ~is_cancelled /\ ~tool_error) =>
    (Len(job_completed) = 1 /\ job_completed[1].success)

\* C6: every emitted progress value lies in 0..100.
C6_ProgressInRange ==
  \A k \in DOMAIN progress_updated : progress_updated[k] \in 0 .. 100

\* C7: the emitted progress values are non-decreasing.
C7_ProgressNonDecreasing ==
  \A k \in 1 .. (Len(progress_updated) - 1) :
    progress_updated[k] <= progress_updated[k + 1]

\* C8: in a merge or embed job a video without a matching companion is
\* skipped with a status note and never launched, and skips alone never
\* fail the job: a batch of skipped videos only ends with success=true.
C8_SkipIsNotFailure ==
  job_type \in {"merge", "embed"} =>
    /\ \A k \in Files : ~has_companion[k] =>
         /\ k \notin launched
         /\ (k < i => <<"nomatch", k>> \in status_updated)
    /\ (\E k \in DOMAIN job_completed : ~job_completed[k].success) =>
         (\E f \in begun : has_companion[f])
    /\ (pc = "done" /\ ~is_cancelled /\ \A k \in Files : ~has_companion[k]) =>
         job_completed = <<Completion(TRUE, NoFile)>>

C8_Witness ==
  /\ job_type = "merge"
  /\ total_files > 1
  /\ \A k \in Files : <<"nomatch", k>> \in status_updated
  /\ launched = {}
  /\ pc = "done"
  /\ job_completed = <<Completion(TRUE, NoFile)>>

\* C9: once cancel() has been called, the job emits no completion event
\* with success=false.
C9_NoFailureAfterCancel ==
  [][is_cancelled =>
       \/ job_completed' = job_completed
       \/ job_completed'[Len(job_completed')].success]_vars

C11_Sequential ==
  /\ Cardinality(alive) <= 1
  /\ (launched \ waited) \subseteq {i}

C11_Witness ==
  /\ launched = {0, 1}
  /\ waited = {0}
  /\ alive = {1}
  /\ pc = "read"

\* C12: notifications follow batch order: the file a notification is about
\* never has a lower index than the file of an earlier notification.
C12_BatchOrder ==
  [][last_notified' >= last_notified]_vars

C12_Witness ==
  /\ last_notified = 1
  /\ progress_for = {0, 1}
  /\ <<"begin", 0>> \in status_updated
  /\ <<"begin", 1>> \in status_updated

\* C13: a rename job in preview mode leaves the directory as it was and
\* calls no rename, and when it is not cancelled it ends with the one
\* success completion carrying the preview qualifier.
C13_PreviewNoMutation ==
  (job_type = "rename" /\ preview_mode) =>
    /\ disk = InitialDisk
    /\ renamed = {}
    /\ (pc = "done" /\ ~is_cancelled) =>
         job_completed = <<Summary(TRUE, NoFile, "preview")>>

C13_Witness ==
  /\ job_type = "rename"
  /\ preview_mode
  /\ pc = "done"
  /\ renamed_count = total_files
  /\ total_files > 1
  /\ job_completed = <<Summary(TRUE, NoFile, "preview")>>

\* C14: a filesystem error while renaming a file is recovered per file: a
\* status note, the file still at its path, every later file still begun,
\* and (when not cancelled) one completion with success=true.
C14_RenameErrorRecovered ==
  job_type = "rename" =>
    /\ \A k \in Files :
         <<"renamefailed", k>> \in status_updated =>
           /\ disk[SrcPath(k)] = k
           /\ k \in renamed
    /\ \A c \in DOMAIN job_completed : job_completed[c].success
    /\ (pc = "done" /\ ~is_cancelled) =>
         /\ begun = Files
         /\ job_completed = <<RenameSummary>>

C14_Witness ==
  /\ job_type = "rename"
  /\ <<"renamefailed", 0>> \in status_updated
  /\ <<"renamed", 1>> \in status_updated
  /\ pc = "done"
  /\ renamed_count = 1
  /\ job_completed = <<Summary(TRUE, NoFile, "renamed")>>

\* C15: a file that exists at a computed target path is never replaced by
\* a rename of the job.
C15_ExistingTargetKept ==
  [][\A p \in Paths :
       (p[1] = "new" /\ disk[p] # NoFile) => disk'[p] = disk[p]]_vars

\* C16: a file whose duration probe gave 0 gets the warning status, no
\* progress value, and its process is still launched; the job does not fail
\* unless a process fails or the job is cancelled.
C16_UnknownDurationStillRuns ==
  /\ \A k \in Files :
       <<"noduration", k>> \in status_updated =>
         /\ k \notin progress_for
         /\ (~(pc = "launch" /\ i = k) => k \in launched)
  /\ (pc = "done" /\ ~is_cancelled /\ ~tool_error
        /\ \E k \in Files : <<"noduration", k>> \in status_updated) =>
       (Len(job_completed) = 1 /\ job_completed[1].success)

\* C16 restricted to extract jobs, the job kind whose processes do start.
C16_ExtractOnly ==
  job_type = "extract" => C16_UnknownDurationStillRuns

\* C17: while the job runs, no handler of the tab removes or adds entries of
\* the list passed as job.input_files or changes the filename of a
\* MediaFile in it.
C17_InputListUntouched ==
  [][(worker_state = "running" /\ worker_state' = "running") =>
       /\ input_files' = input_files
       /\ \A k \in DOMAIN input_files :
            filename'[input_files[k]] = filename[input_files[k]]]_vars

\* C18: when every file's season/episode parses and a show name is given,
\* a rename job can be started, whatever the title lookups returned.
C18_LookupNeverBlocks ==
  (/\ rename_btn
   /\ media_files # <<>>
   /\ show_name # ""
   /\ \A k \in DOMAIN media_files : Parses(filename[media_files[k]]))
    => CanStart

\* C18 for the previews in which no title was looked up.
C18_WithoutLookup ==
  ~(use_api /\ show_found /\ template_title) => C18_LookupNeverBlocks

\* C19: the match predicate gives the same answer for (video, companion) as
\* for (companion, video).
C19_MatchSymmetric ==
  \A k \in DOMAIN audio_files :
    Matches(video_stem, audio_files[k]) = Matches(audio_files[k], video_stem)

C19_Witness ==
  \E k \in DOMAIN audio_files :
    /\ Len(audio_files[k]) < Len(video_stem)
    /\ audio_files[k] # Lower(audio_files[k])
    /\ \E j \in DOMAIN matching_audio : matching_audio[j] = k

\* C20: the matched companions are exactly the candidates whose stem
\* contains or is contained in the video's stem, ignoring case: every one
\* of them once, in the order of the candidate list, equal stems included.
C20_MatchedExactly ==
  /\ \A k \in DOMAIN audio_files :
       (\E j \in DOMAIN matching_audio : matching_audio[j] = k)
         <=> (\/ In(Lower(video_stem), Lower(audio_files[k]))
              \/ In(Lower(audio_files[k]), Lower(video_stem)))
  /\ \A j \in DOMAIN matching_audio : matching_audio[j] \in DOMAIN audio_files
  /\ \A j1, j2 \in DOMAIN matching_audio :
       j1 < j2 => matching_audio[j1] < matching_audio[j2]

C20_Witness ==
  /\ Len(audio_files) = 2
  /\ audio_files[1] = audio_files[2]
  /\ Len(audio_files[1]) > Len(video_stem)
  /\ matching_audio = <<1, 2>>

\* C21: numbers of any length are accepted: the worker's extraction returns
\* for every file name the pair the utility function returns, and
\* S1E111 gives (1, 111).
C21_SameExtraction ==
  called =>
    /\ result.worker = result.utils
    /\ (args = <<"S", "1", "E", "1", "1", "1">> => result.worker = <<1, 111>>)

\* C21 for the utility function alone.
C21_UtilsOnly ==
  (called /\ args = <<"S", "1", "E", "1", "1", "1">>) =>
    result.utils = <<1, 111>>

\* C22: build_new_filename never raises, and for a template that cannot be
\* formatted it returns the sanitized name, " - S", the season and "E", the
\* episode, both zero-padded to two digits at least, and the extension.
C22_FallbackName ==
  called =>
    /\ result # Raised
    /\ (\E k \in DOMAIN args.template :
          args.template[k] \in {"{unknown}", "{name:02d}", "{0}"})
         => result =
              SelectSeq(args.show, LAMBDA c : c \notin Forbidden)
                \o <<" ", "-", " ", "S">>
                \o (IF args.season = 7 THEN <<"0", "7">>
                    ELSE IF args.season = 12 THEN <<"1", "2">>
                    ELSE <<"3", "4", "5">>)
                \o <<"E">>
                \o (IF args.episode = 7 THEN <<"0", "7">>
                    ELSE IF args.episode = 12 THEN <<"1", "2">>
                    ELSE <<"3", "4", "5">>)
                \o <<".", "m", "k", "v">>

C22_Witness ==
  /\ called
  /\ args.template = <<"{name}", "{unknown}">>
  /\ args.show = <<"A", ":", "?">>
  /\ args.season = 7
  /\ args.episode = 345
  /\ result = <<"A", " ", "-", " ", "S", "0", "7", "E", "3", "4", "5",
                ".", "m", "k", "v">>

\* C23: the extract command is tool, -i, the input path, -vn, -acodec and
\* the codec of the format (aac, libmp3lame, flac, libvorbis), -y, and
\* <output_dir>/<stem of the display file name>.<format>.
C23_ExtractCommand ==
  (called /\ args.kind = "extract"
     /\ args.format \in {"aac", "mp3", "flac", "ogg"}) =>
    /\ Len(result) = 8
    /\ result[1] = <<"ffmpeg">>
    /\ result[2] = <<"-i">>
    /\ result[3] = args.media_file.path
    /\ result[4] = <<"-vn">>
    /\ result[5] = <<"-acodec">>
    /\ result[6] = (CASE args.format = "aac"  -> <<"aac">>
                      [] args.format = "mp3"  -> <<"libmp3lame">>
                      [] args.format = "flac" -> <<"flac">>
                      [] args.format = "ogg"  -> <<"libvorbis">>)
    /\ result[7] = <<"-y">>
    /\ result[8] =
         <<args.output_directory, "/">>
           \o (CASE args.media_file.filename = <<"video", "mkv">>
                      -> <<"video">>
                 [] args.media_file.filename = <<"new", "name", "mkv">>
                      -> <<"new", ".", "name">>
                 [] args.media_file.filename = <<"b", "mp4">> -> <<"b">>
                 [] args.media_file.filename = <<"raw">> -> <<"raw">>)
           \o <<".", args.format>>

C23_Witness ==
  /\ called
  /\ args.kind = "extract"
  /\ args.format = "mp3"
  /\ args.media_file.path = <<"/in/video.mkv">>
  /\ args.media_file.filename = <<"new", "name", "mkv">>
  /\ result[6] = <<"libmp3lame">>
  /\ result[8] = <<"/out", "/", "new", ".", "name", ".", "mp3">>

\* C24: the merge command is the video input, one -i per companion in list
\* order, the two maps of the video (0 and -0:a when preserve_original is
\* set, else 0:v and 0:s?), -map k:a for k = 1..n in order, the language
\* tags, and -c copy -y <output_dir>/<video stem>_merged.mkv.
C24_MergeCommand ==
  (called /\ args.kind = "merge") =>
    LET n == Len(args.matching)
        t == Len(args.languages)
    IN  /\ Len(result) = 3 + 2 * n + 4 + 2 * n + 2 * t + 4
        /\ result[1] = <<"ffmpeg">>
        /\ result[2] = <<"-i">>
        /\ result[3] = args.video_file.path
        /\ \A k \in 1 .. n :
             /\ result[3 + 2 * k - 1] = <<"-i">>
             /\ result[3 + 2 * k] = args.matching[k]
        /\ result[3 + 2 * n + 1] = <<"-map">>
        /\ result[3 + 2 * n + 3] = <<"-map">>
        /\ IF args.preserve_original \in {"True", Missing}
             THEN /\ result[3 + 2 * n + 2] = <<"0">>
                  /\ result[3 + 2 * n + 4] = <<"-0:a">>
             ELSE /\ result[3 + 2 * n + 2] = <<"0:v">>
                  /\ result[3 + 2 * n + 4] = <<"0:s?">>
        /\ \A k \in 1 .. n :
             /\ result[7 + 2 * n + 2 * k - 1] = <<"-map">>
             /\ result[7 + 2 * n + 2 * k] =
                  <<DigitSeq[k + 1], ":a">>
        /\ \A k \in 1 .. t :
             result[7 + 4 * n + 2 * k - 1][1] = "-metadata:s:"
        /\ SubSeq(result, Len(result) - 3, Len(result)) =
             << <<"-c">>, <<"copy">>, <<"-y">>,
                <<args.output_directory, "/", "video", "_merged.mkv">> >>

C24_Witness ==
  /\ called
  /\ args.kind = "merge"
  /\ args.preserve_original = "False"
  /\ args.matching = << <<"/a/video.de.mp3">>, <<"/a/video.aac">> >>
  /\ args.languages = <<"ger", "eng">>
  /\ result[12] = <<"-map">>
  /\ result[13] = <<"1", ":a">>
  /\ result[15] = <<"2", ":a">>

\* C25: the command merge_audio launches for a video carries one language
\* tag per matched companion: as many '-metadata:s:a:<i>' arguments as
\* companions matched, tag i naming the language of the i-th of them.
C25_OneTagPerCompanion ==
  (called /\ args.kind = "merge_audio") =>
    LET matched == MatchingAudio(args.video_stem, StemsOf(args.audio_files))
        tags == {k \in DOMAIN result : result[k][1] = "-metadata:s:"}
    IN  matched # <<>> =>
          /\ result # RaisedCmd
          /\ Cardinality(tags) = Len(matched)
          /\ \A j \in DOMAIN matched :
               \E k \in tags :
                 /\ result[k] = <<"-metadata:s:", "a", ":", DigitSeq[j]>>
                 /\ result[k + 1] =
                      <<"language=", args.audio_files[matched[j]].language>>

C27_HardEmbedCommand ==
  (called /\ args.kind = "embed" /\ args.subtitle_type = Hard) =>
    IF args.matching = <<>> THEN result = <<>>
    ELSE /\ Len(result) = 7
         /\ SubSeq(result, 1, 4) =
              <<Tool, <<"-i">>, args.video_file.path, <<"-vf">> >>
         /\ result[5] =
              <<"subtitles='">>
                \o (CASE args.matching[1] = <<"/", "s">> -> <<"/", "s">>
                      [] args.matching[1] = <<"C", ":", "\\", "s">>
                           -> <<"C", "\\", ":", "/", "s">>
                      [] args.matching[1] = <<"s", ":", "t">>
                           -> <<"s", "\\", ":", "t">>)
                \o <<"'">>
         /\ result[6] = <<"-y">>
         /\ result[7] = <<args.output_directory, "/", "video",
                          "_subtitled.mkv">>

C27_Witness ==
  /\ called
  /\ args.kind = "embed"
  /\ args.subtitle_type = Hard
  /\ args.matching = << <<"C", ":", "\\", "s">>, <<"/", "s">> >>
  /\ result[5] = <<"subtitles='", "C", "\\", ":", "/", "s", "'">>

\* C28: process_paths returns, in ascending order and without repetition,
\* exactly the existing files with an allowed extension (letter case
\* ignored) that are given directly or lie at any depth under a given
\* directory; a path that does not exist or has another extension adds
\* nothing, and an empty input gives an empty result.
C28_ProcessPaths ==
  called =>
    LET given == {args.paths[k] : k \in DOMAIN args.paths}
        media == IF args.allowed_extensions = <<".txt">>
                   THEN {"/d/c.txt", "/g.txt"}
                   ELSE {"/d/B.MKV", "/d/a.mkv", "/d/s.mkv/e.mkv", "/f.mkv"}
        under == [f \in Entries |->
                    IF f = "/d/s.mkv/e.mkv" THEN {"/d", "/d/s.mkv"}
                    ELSE IF f \in {"/d/B.MKV", "/d/a.mkv", "/d/c.txt"}
                      THEN {"/d"}
                    ELSE {}]
        expected == {f \in args.fs \cap media :
                       f \in given \/ under[f] \cap given # {}}
    IN  /\ {result[k] : k \in DOMAIN result} = expected
        /\ Len(result) = Cardinality(expected)
        /\ \A j, k \in DOMAIN result :
             j < k => Rank(result[j]) < Rank(result[k])
        /\ (args.paths = <<>> => result = <<>>)

C28_Witness ==
  /\ called
  /\ args.paths = <<"/d", "/d/a.mkv">>
  /\ args.allowed_extensions = <<".mkv">>
  /\ args.fs = Entries
  /\ result = <<"/d/B.MKV", "/d/a.mkv", "/d/s.mkv/e.mkv">>

\* C29: the progress value emitted for a timestamp line of file i of n, with
\* duration d > 0 and elapsed time e, is floor((i + e/d) / n * 100), the
\* single truncation of the exact quotient (100 i d + 100 e) / (n d).
C29_SingleTruncation ==
  called =>
    result = <<(100 * args.i * args.duration + 100 * args.elapsed_time)
                 \div (args.total_files * args.duration)>>

\* C29, in exact arithmetic: truncating the percentage of the file first
\* and the overall percentage second gives the single truncation.
C29_ExactTruncations ==
  called =>
    (100 * args.i + FileProgress(args.elapsed_time, args.duration))
        \div args.total_files
      = (100 * args.i * args.duration + 100 * args.elapsed_time)
          \div (args.total_files * args.duration)

\* C30: no two consecutive emissions of progress_updated within a job carry
\* the same value.
C30_EmittedOnlyOnChange ==
  Len(progress_updated) = 2 => progress_updated[1] # progress_updated[2]

\* C31: once a job has emitted its completion event it emits no further
\* progress, status or completion notification, launches no further
\* process and renames nothing more.
C31_TerminalIsFinal ==
  [][job_completed # <<>> =>
       /\ pc = "done"
       /\ UNCHANGED <<pc, i, progress_updated, progress_for, status_updated,
                      last_notified, job_completed, launched, renamed,
                      renamed_count, disk>>]_vars

\* A completion was emitted and a step was taken afterwards: cancel() was
\* called on a job that had already reported success.
C31_Witness ==
  /\ Len(job_completed) = 1
  /\ job_completed[1].success
  /\ launched # {}
  /\ is_cancelled
  /\ cancel_i = total_files

\* C33: no run of a job emits more than one completion event.
C33_AtMostOneCompletion ==
  Len(job_completed) <= 1

\* A run that ended through an except clause after an earlier file of the
\* batch had been processed, and was cancelled as well.
C33_Witness ==
  /\ pc = "done"
  /\ tool_error
  /\ is_cancelled
  /\ waited # {}
  /\ Len(job_completed) = 1
  /\ ~job_completed[1].success

\* C34: every started job eventually stops, whatever its kind and whenever
\* cancel() is called, given that every process it launches eventually
\* closes its stream and exits; so does a job whose cancel() was called.
C34_JobStops ==
  /\ (pc # "start") ~> (pc = "done")
  /\ (is_cancelled /\ pc # "start") ~> (pc = "done")

\* A cancelled job has stopped after waiting for a process that wrote
\* nothing more and was not terminated: it exited by itself.
C34_Witness ==
  /\ pc = "done"
  /\ is_cancelled
  /\ cancel_i = 0
  /\ proc = "exited"
  /\ ~terminated
  /\ waited = {0}
  /\ total_files > 1

\* C32: in the single-file application an extract job whose loop was
\* stopped by cancel() before every input file was processed emits no
\* completion event with success=true.
C32_CancelledNotCompleted ==
  (job_type = "extract" /\ is_cancelled /\ begun # Files /\ pc = "done") =>
    \A k \in DOMAIN job_completed : ~job_completed[k].success

\* C35: when a job emits a completion event with success=true, the last
\* progress value it emitted is 100, for every job kind, also when files
\* were skipped or had an unknown duration.
C35_SuccessAtHundred ==
  \A k \in DOMAIN job_completed :
    job_completed[k].success =>
      /\ progress_updated # <<>>
      /\ progress_updated[Len(progress_updated)] = 100

\* A successful job for whose files no progress was ever computed: an
\* extract job of two files of unknown duration.
C35_Witness ==
  /\ job_type = "extract"
  /\ total_files = 2
  /\ <<"noduration", 0>> \in status_updated
  /\ <<"noduration", 1>> \in status_updated
  /\ progress_for = {}
  /\ job_completed = <<Completion(TRUE, NoFile)>>
  /\ progress_updated = <<100>>

\* C35, rename: the progress of the last file is 100 whether or not the
\* file was renamed.
C35_RenameWitness ==
  /\ job_type = "rename"
  /\ total_files = 2
  /\ renamed = {}
  /\ ~preview_mode
  /\ job_completed = <<RenameSummary>>
  /\ progress_updated = <<50, 100>>

\* C36: a rename job gives a new name to every input file whose name
\* yields a (season, episode) pair, a pair with a 0 included, and leaves
\* untouched the files for which no pattern matches, and only those.
C36_EveryPairRenamed ==
  (called /\ "renamed" \in DOMAIN result) =>
    (result.renamed <=> result.worker # <<None, None>>)

\* C36 for the pairs without a 0.
C36_NonZeroPairsRenamed ==
  (called /\ "renamed" \in DOMAIN result
     /\ result.worker # <<None, None>>
     /\ result.worker[1] # 0 /\ result.worker[2] # 0) =>
    result.renamed

\* C37: after a job was started, which disables the start button and
\* enables the cancel button, the start button is eventually enabled and
\* the cancel button disabled again, whatever the outcome of the job.
C37_ButtonsRestored ==
  (~rename_btn /\ cancel_btn) ~> (rename_btn /\ ~cancel_btn)

\* C37 for the jobs that are not cancelled.
C37_RestoredUnlessCancelled ==
  (~rename_btn /\ cancel_btn) ~> ((rename_btn /\ ~cancel_btn) \/ worker_cancel)

\* C38: when a job has stopped, no process it launched is still running,
\* also when an exception was raised while the stream was read.
C38_NoProcessLeft ==
  pc = "done" => alive = {}

\* C38 for the runs in which reading the stream raises nothing: every
\* process of a stopped job has exited and has been waited for.
C38_WaitedUnlessRaised ==
  (pc = "done" /\ proc # "none" /\ alive # {}) =>
    /\ tool_error
    /\ job_completed = <<Completion(FALSE, i)>>
    /\ i \notin waited

\* C39: for every file the preview marks valid, the new name the rename
\* job applies is the new name the preview shows.
C39_AppliedIsPreviewed ==
  (called /\ result.valid) => result.applied = result.preview

\* C39 without the title lookup and for numbers of at most two digits.
C39_WithoutLookup ==
  (called /\ result.valid /\ ~args.api
     /\ args.name # <<"S", "1", "E", "1", "1", "1">>) =>
    result.applied = result.preview

====
